---------------------------- MODULE Spec2Model ----------------------------
(***************************************************************************)
(* A model of pytorm: the schema model (Database / Table / Column with     *)
(* the declare -> resolve lifecycle), the navigation algebra (link_to and   *)
(* its three surface syntaxes, LinkedTable / LinkedColumn / AliasedTable /  *)
(* AliasedColumn path nodes) and the join synthesizer of Select.            *)
(*                                                                         *)
(* The repository holds two iterations of the schema model: the module     *)
(* src/src/sql_query.py (the one the tests import) and the package          *)
(* src/src/sql/ (schema.py, select.py, expression.py).  They agree line by  *)
(* line except where the variable impl is consulted.                        *)
(*                                                                         *)
(* Python objects are modelled as records tagged by the field k.  Text is   *)
(* a sequence of tokens: a token is a word, a quote or punctuation mark, or *)
(* the single space " ", so that the first and last character of a text     *)
(* are its first and last token.                                            *)
(***************************************************************************)
EXTENDS Integers, Sequences, FiniteSets, TLC

VARIABLES
    impl,                   \* which iteration of the schema model runs
    tables,                 \* Database.tables: the Table objects, in order
    table_dict,             \* Database.table_dict: table name -> Table object
    column_dict,            \* Database.column_dict: <<table name, column name>> -> Column
    links,                  \* Column.links of every constructed Column
    db_resolved,            \* Database.reference_resolved
    table_resolved,         \* Table.reference_resolved of every constructed Table
    column_resolved,        \* the Columns whose _reference_resolved is True
    link_table_columns,     \* Column.link_table_columns, once resolve_reference ran
    link_columns_to_table,  \* Table.link_columns_to_table, once built
    driver,                 \* the connections and cursors acquired from the driver
    conn,                   \* SQLExecutor.conn
    connection,             \* the Connection object: _con and closed
    operation,              \* the Operation object: con, _cur and closed
    result                  \* the last call made on the library and its outcome

vars == <<impl, tables, table_dict, column_dict, links, db_resolved,
          table_resolved, column_resolved, link_table_columns,
          link_columns_to_table, driver, conn, connection, operation, result>>

schema_vars == <<tables, table_dict, column_dict, links, db_resolved,
                 table_resolved, column_resolved, link_table_columns,
                 link_columns_to_table>>

exec_vars == <<driver, conn, connection, operation>>

-----------------------------------------------------------------------------
(* Bounds *)

\* longest column list handed to Select by the enumerated callers
MaxSel == 2

\* most steps of a test program behind an origin, and behind a target, of
\* link_to
MaxOrigin == 6

MaxTarget == 3

-----------------------------------------------------------------------------
(* The schema the tests declare *)

Impls == {"sql_query", "sql.schema"}

DBName == "DB"

ColumnSpec(n, pk, lnk) == [name |-> n, is_primary |-> pk, links |-> lnk]

\* db[t][c] written inside a links=[...] argument
LinkArg(t, c) == [table |-> t, column |-> c]

\* ColumnRef(db.table_ref(t), c) written inside a links=[...] argument
RefArg(t, c) == [table |-> t, column |-> c, ref |-> TRUE]

IsRefArg(a) == "ref" \in DOMAIN a

\* The Table(...) constructions the callers make: the tables of
\* create_database() that the scenarios select from (kind_with_dates and
\* the rate column, which no scenario reads, are left out).  "kinds_again"
\* declares a second table under the name kinds.
DeclIds == {"kinds", "subkinds", "items", "rel_item_pairs", "kinds_again"}

\* The constructions of the declare -> resolve lifecycle: kinds,
\* kind_with_dates and subkinds as create_database() declares them
\* (subkinds.kind_id links to both), and the declarations the checks of
\* Table.__init__, Column.resolve_reference and ColumnRef are there for:
\* no primary key (notes), two primary keys (pairs), two links into one
\* table (kind_names), a link given by name (kind_notes).
LifecycleDeclIds == {"kinds", "kind_with_dates", "subkinds_dated", "notes",
                     "pairs", "kind_names", "kind_notes"}

\* Table(db, name, ...): the name a construction gives its table
TableNameOf(d) ==
    CASE d = "kinds_again" -> "kinds"
      [] d = "subkinds_dated" -> "subkinds"
      [] OTHER -> d

\* Table(db, name, [Column(...), ...]): the names of the columns, in order
ColumnNameSeq(d) ==
    CASE d = "kinds" -> << "id", "name" >>
      [] d = "subkinds" -> << "id", "kind_id", "name" >>
      [] d = "items" -> << "id", "subkind_id", "name" >>
      [] d = "rel_item_pairs" -> << "id", "item1_id", "item2_id" >>
      [] d = "kinds_again" -> << "id", "label" >>
      [] d = "kind_with_dates" -> << "id", "bdate", "edate" >>
      [] d = "subkinds_dated" -> << "id", "kind_id", "name" >>
      [] d = "notes" -> << "id", "text" >>
      [] d = "pairs" -> << "left_id", "right_id" >>
      [] d = "kind_names" -> << "id", "kind_id" >>
      [] d = "kind_notes" -> << "id", "kind_id" >>

\* the columns constructed with is_primary=True
PrimaryKeyNames(d) ==
    CASE d = "notes" -> {}
      [] d = "pairs" -> {"left_id", "right_id"}
      [] OTHER -> {"id"}

\* the links=[...] argument of column n
LinkArgs(d, n) ==
    CASE d = "subkinds" /\ n = "kind_id" -> << LinkArg("kinds", "id") >>
      [] d = "items" /\ n = "subkind_id" -> << LinkArg("subkinds", "id") >>
      [] d = "rel_item_pairs" /\ n \in {"item1_id", "item2_id"} ->
           << LinkArg("items", "id") >>
      [] d = "subkinds_dated" /\ n = "kind_id" ->
           << LinkArg("kinds", "id"), LinkArg("kind_with_dates", "id") >>
      [] d = "kind_names" /\ n = "kind_id" ->
           << LinkArg("kinds", "id"), LinkArg("kinds", "name") >>
      [] d = "kind_notes" /\ n = "kind_id" -> << RefArg("kinds", "id") >>
      [] OTHER -> <<>>

ColumnSpecs(d) ==
    [i \in DOMAIN ColumnNameSeq(d) |->
        ColumnSpec(ColumnNameSeq(d)[i], ColumnNameSeq(d)[i] \in PrimaryKeyNames(d),
                   LinkArgs(d, ColumnNameSeq(d)[i]))]

Declaration(d) == [name |-> TableNameOf(d), columns |-> ColumnSpecs(d)]

ColumnNames(d) == { ColumnNameSeq(d)[i] : i \in DOMAIN ColumnNameSeq(d) }

SpecOf(d, n) ==
    LET i == CHOOSE j \in DOMAIN ColumnSpecs(d) : ColumnSpecs(d)[j].name = n
    IN  ColumnSpecs(d)[i]

-----------------------------------------------------------------------------
(* Objects *)

None == [k |-> "None"]

Error(e, w) == [k |-> "Error", err |-> e, why |-> w]

IsError(x) == x.k = "Error"

TableObj(d) == [k |-> "Table", id |-> d]

ColumnObj(d, n) == [k |-> "Column", tab |-> d, name |-> n]

\* Table.columns, in declaration order
ColumnsOf(d) == [i \in DOMAIN ColumnNameSeq(d) |-> ColumnObj(d, ColumnNameSeq(d)[i])]

Constructed == { tables[i] : i \in DOMAIN tables }

-----------------------------------------------------------------------------
(* Database.prepare_table -> Table.__init__ -> Database.append_table *)

\* the value of db[t][c] in a links=[...] argument, looked up when the caller
\* builds the Column
LinkArgDefined(a) ==
    /\ a.table \in DOMAIN table_dict
    /\ a.column \in ColumnNames(table_dict[a.table])

LinkArgValue(a) == ColumnObj(table_dict[a.table], a.column)

DeclarationCallable(d) ==
    \A i \in DOMAIN ColumnSpecs(d) :
        \A j \in DOMAIN ColumnSpecs(d)[i].links :
            \/ IsRefArg(ColumnSpecs(d)[i].links[j])
            \/ LinkArgDefined(ColumnSpecs(d)[i].links[j])

\* ColumnRef.__init__ reads self.table._entity: TableRef sets that attribute
\* only when the table exists, and when it does the test asks the Table for
\* its truth value, which Expr.__bool__ refuses
ColumnRef(a) ==
    IF a.table \notin DOMAIN table_dict THEN Error("AttributeError", "_entity")
    ELSE IF impl = "sql_query" THEN Error("NotImplementedError", "__bool__")
    ELSE Error("RuntimeError", "__bool__")

\* the links=[...] arguments of a declaration, evaluated before Table(...)
\* is entered: what the first ColumnRef(...) among them raises
ArgumentsRaised(d) ==
    LET args == UNION { { <<i, j>> : j \in DOMAIN ColumnSpecs(d)[i].links } :
                          i \in DOMAIN ColumnSpecs(d) }
        refs == { r \in args : IsRefArg(ColumnSpecs(d)[r[1]].links[r[2]]) }
    IN  IF refs = {} THEN None
        ELSE LET first == CHOOSE r \in refs :
                            \A q \in refs : r[1] < q[1] \/ (r[1] = q[1] /\ r[2] <= q[2])
             IN  ColumnRef(ColumnSpecs(d)[first[1]].links[first[2]])

\* Column.__init__: self.links = list(links)
ColumnLinks(d, n) ==
    [j \in DOMAIN SpecOf(d, n).links |-> LinkArgValue(SpecOf(d, n).links[j])]

\* Database.append_table
append_table_dict(d) ==
    [n \in DOMAIN table_dict \cup {TableNameOf(d)} |->
        IF n = TableNameOf(d) THEN d ELSE table_dict[n]]

append_column_dict(d) ==
    LET new == { <<TableNameOf(d), n>> : n \in ColumnNames(d) }
    IN  [key \in DOMAIN column_dict \cup new |->
            IF key \in new THEN ColumnObj(d, key[2]) ELSE column_dict[key]]

\* Table.__init__: the primary-key check, made after append_table
key_columns(d) == SelectSeq(ColumnsOf(d), LAMBDA c : SpecOf(d, c.name).is_primary)

PrimaryKeyCheck(d) ==
    IF Len(key_columns(d)) >= 2 THEN Error("RuntimeError", "multiple_primary_key")
    ELSE IF Len(key_columns(d)) = 0 THEN Error("RuntimeError", "primary_key_not_found")
    ELSE None

prepare_table(d) ==
    /\ d \notin Constructed
    /\ DeclarationCallable(d)
    /\ IF IsError(ArgumentsRaised(d))
       THEN /\ result' = [op |-> "prepare_table", table |-> d, name |-> TableNameOf(d),
                          raised |-> ArgumentsRaised(d)]
            /\ UNCHANGED <<links, table_resolved, tables, table_dict, column_dict>>
       ELSE /\ links' = [c \in DOMAIN links \cup { ColumnsOf(d)[i] : i \in DOMAIN ColumnsOf(d) } |->
                            IF c \in DOMAIN links THEN links[c] ELSE ColumnLinks(d, c.name)]
            /\ table_resolved' = [t \in DOMAIN table_resolved \cup {d} |->
                                    IF t = d THEN FALSE ELSE table_resolved[t]]
            /\ tables' = Append(tables, d)
            /\ table_dict' = append_table_dict(d)
            /\ column_dict' = append_column_dict(d)
            /\ result' = [op |-> "prepare_table", table |-> d, name |-> TableNameOf(d),
                          raised |-> PrimaryKeyCheck(d)]
    /\ UNCHANGED <<impl, db_resolved, column_resolved, link_table_columns,
                   link_columns_to_table, exec_vars>>

-----------------------------------------------------------------------------
(* Database.finalize_tables -> Database.resolve_references ->              *)
(* Table.resolve_references -> Column.resolve_reference                     *)

Put(f, key, v) == [x \in DOMAIN f \cup {key} |-> IF x = key THEN v ELSE f[x]]

\* Column.resolve_reference without its test for a second link into one
\* table: a later link replaces the earlier one
RECURSIVE resolve_reference_unchecked(_, _, _)
resolve_reference_unchecked(lnks, i, m) ==
    IF i > Len(lnks) THEN [map |-> m, raised |-> None]
    ELSE resolve_reference_unchecked(lnks, i + 1,
                                     Put(m, TableNameOf(lnks[i].tab), lnks[i]))

\* Column.resolve_reference: the loop over self.links.  An element of
\* self.links is never a ColumnRef, because ColumnRef.__init__ always raises.
RECURSIVE resolve_reference(_, _, _)
resolve_reference(lnks, i, m) ==
    IF i > Len(lnks) THEN [map |-> m, raised |-> None]
    ELSE LET column == lnks[i]
             tn == TableNameOf(column.tab)
         IN  IF tn \in DOMAIN m
             THEN [map |-> m, raised |-> Error("RuntimeError", "multiple_link_columns")]
             ELSE resolve_reference(lnks, i + 1, Put(m, tn, column))

\* Table.resolve_references: the first loop, over self.columns
RECURSIVE resolve_columns(_, _, _)
resolve_columns(d, i, S) ==
    IF i > Len(ColumnsOf(d)) THEN S
    ELSE LET c == ColumnsOf(d)[i]
             r == resolve_reference(links[c], 1, <<>>)
             T == [S EXCEPT !.ltc = Put(S.ltc, c, r.map)]
         IN  IF IsError(r.raised)
             THEN [T EXCEPT !.raised = r.raised]
             ELSE resolve_columns(d, i + 1, [T EXCEPT !.cres = S.cres \cup {c}])

\* Table.resolve_references: the second loop, the destination -> origin
\* columns index
link_index(d, ltc) ==
    LET dests == UNION { DOMAIN ltc[ColumnsOf(d)[i]] : i \in DOMAIN ColumnsOf(d) }
    IN  [tn \in dests |-> SelectSeq(ColumnsOf(d), LAMBDA c : tn \in DOMAIN ltc[c])]

Table_resolve_references(d, S) ==
    LET T == resolve_columns(d, 1, S)
    IN  IF IsError(T.raised) THEN T
        ELSE [T EXCEPT !.lctt = Put(T.lctt, d, link_index(d, T.ltc)),
                       !.tres = Put(T.tres, d, TRUE)]

\* Database.resolve_references: the loop over self.tables
RECURSIVE resolve_tables(_, _)
resolve_tables(i, S) ==
    IF i > Len(tables) THEN S
    ELSE LET T == Table_resolve_references(tables[i], S)
         IN  IF IsError(T.raised) THEN T ELSE resolve_tables(i + 1, T)

resolve_references ==
    LET S == resolve_tables(1, [ltc |-> link_table_columns, cres |-> column_resolved,
                                lctt |-> link_columns_to_table, tres |-> table_resolved,
                                raised |-> None])
    IN  /\ link_table_columns' = S.ltc
        /\ column_resolved' = S.cres
        /\ link_columns_to_table' = S.lctt
        /\ table_resolved' = S.tres
        /\ db_resolved' = IF IsError(S.raised) THEN db_resolved ELSE TRUE
        /\ result' = [op |-> "resolve_references", raised |-> S.raised]
        /\ UNCHANGED <<impl, tables, table_dict, column_dict, links, exec_vars>>

-----------------------------------------------------------------------------
(* Expressions: __repr__, is_same, entity *)

Str(v) == [k |-> "str", v |-> v]

\* a tuple or list of navigation targets
Tuple(items) == [k |-> "tuple", items |-> items]

\* a target that is neither a string, a schema expression nor an iterable
Number(v) == [k |-> "int", v |-> v]

Database == [k |-> "Database"]

IsTableExpr(e) == e.k \in {"Table", "LinkedTable", "AliasedTable"}

IsColumnExpr(e) == e.k \in {"Column", "LinkedColumn", "AliasedColumn"}

\* isinstance(val, Iterable): SchemaExprs defines __iter__
IsIterable(e) == e.k \in {"tuple", "SchemaExprs"}

RECURSIVE repr(_)

\* ', '.join(map(repr, schemas))
RECURSIVE join_repr(_, _)
join_repr(schemas, i) ==
    IF i > Len(schemas) THEN <<>>
    ELSE (IF i > 1 THEN << ",", " " >> ELSE <<>>) \o repr(schemas[i])
           \o join_repr(schemas, i + 1)

repr(e) ==
    CASE e.k = "Database" -> << DBName >>
      [] e.k = "SchemaExprs" -> << "(" >> \o join_repr(e.schemas, 1) \o << ")" >>
      [] e.k = "Table" -> << DBName, "{", TableNameOf(e.id), "}" >>
      [] e.k = "Column" -> repr(TableObj(e.tab)) \o << ".", e.name >>
      [] e.k = "LinkedColumn" ->
           repr(e.column) \o << "<-" >> \o repr(e.linked_table.linking_column)
      [] e.k = "LinkedTable" ->
           << DBName, "{" >> \o repr(e.table) \o << "<-" >>
             \o repr(e.linking_column) \o << "}" >>
      [] e.k = "AliasedColumn" -> repr(e.aliased_table) \o << ".", e.column.name >>
      [] e.k = "AliasedTable" ->
           << DBName, "{" >> \o repr(e.table) \o << "@", e.alias_name, "}" >>

is_same(expr1, expr2) == repr(expr1) = repr(expr2)

\* entity() of a table expression: the Table object
RECURSIVE entity(_)
entity(e) ==
    CASE e.k = "Table" -> e
      [] e.k = "LinkedTable" -> entity(e.table)
      [] e.k = "AliasedTable" -> entity(e.table)
      [] e.k = "Column" -> e
      [] e.k = "LinkedColumn" -> e.column
      [] e.k = "AliasedColumn" -> e.column

\* Column.table
TableOfColumn(c) == TableObj(c.tab)

-----------------------------------------------------------------------------
(* Table: column lookup and link lookup *)

\* Database.table(name): sql_query.py raises RuntimeError, sql/schema.py KeyError
TableNotFound ==
    IF impl = "sql_query" THEN Error("RuntimeError", "table_not_found")
    ELSE Error("KeyError", "table_not_found")

Database_table(x) ==
    IF x.k = "str"
    THEN IF x.v \in DOMAIN table_dict THEN TableObj(table_dict[x.v]) ELSE TableNotFound
    ELSE entity(x)    \* one Database: is_same(table.db, self) holds

column_exists(t, col) ==
    IF IsColumnExpr(col) THEN is_same(TableOfColumn(entity(col)), t)
    ELSE col.v \in ColumnNames(t.id)

column_by_name(t, name) ==
    IF name \notin ColumnNames(t.id) THEN Error("RuntimeError", "column_not_found")
    ELSE ColumnObj(t.id, name)

\* sql_query.py, Table.column_links_to_table
column_links_to_table(t, table) ==
    LET name == TableNameOf(table.id)
        idx  == link_columns_to_table[t.id]
    IN  IF ~table_resolved[t.id] THEN Error("RuntimeError", "not_resolved")
        ELSE IF name \notin DOMAIN idx \/ Len(idx[name]) = 0
             THEN Error("RuntimeError", "no_columns")
        ELSE IF Len(idx[name]) > 1 THEN Error("RuntimeError", "multiple_columns")
        ELSE idx[name][1]

\* sql/schema.py, Table.has_connection_to
Table_has_connection_to(t, dest_table) ==
    LET name == TableNameOf(dest_table.id)
        idx  == link_columns_to_table[t.id]
    IN  IF ~table_resolved[t.id] THEN Error("RuntimeError", "not_resolved")
        ELSE [k |-> "bool", v |-> (name \notin DOMAIN idx \/ Len(idx[name]) # 1)]

\* sql/schema.py, Table.connection_to
connection_to(t, dest_table) ==
    LET name == TableNameOf(dest_table.id)
        idx  == link_columns_to_table[t.id]
        has  == Table_has_connection_to(t, dest_table)
    IN  IF IsError(has) THEN has
        ELSE IF ~has.v THEN Error("RuntimeError", "no_or_multiple_connection")
        ELSE IF name \notin DOMAIN idx THEN Error("KeyError", "link_columns_to_table")
        ELSE idx[name][1]

\* the link column TableExpr.link_to asks the origin's entity for
LinkColumnTo(t, table) ==
    IF impl = "sql_query" THEN column_links_to_table(t, table)
    ELSE connection_to(t, table)

\* Column.has_connection_to: self.reference_resolved is the bound method,
\* so the guard never fires; the lookup needs the dict resolve_reference makes
Column_has_connection_to(c, table) ==
    IF c \notin DOMAIN link_table_columns
    THEN Error("AttributeError", "link_table_columns")
    ELSE [k |-> "bool", v |-> TableNameOf(table.id) \in DOMAIN link_table_columns[c]]

-----------------------------------------------------------------------------
(* Path nodes: constructors *)

LinkedTable(table, linking_column) ==
    IF table.k # "Table" THEN Error("TypeError", "table_type")
    ELSE IF linking_column.k \notin {"Column", "LinkedColumn"}
         THEN Error("TypeError", "column_type")
    ELSE LET has == Column_has_connection_to(entity(linking_column), table)
         IN  IF IsError(has) THEN has
             ELSE IF ~has.v THEN Error("RuntimeError", "no_connection")
             ELSE [k |-> "LinkedTable", table |-> table,
                   linking_column |-> linking_column]

LinkedColumn(linked_table, column) ==
    IF linked_table.k # "LinkedTable" \/ column.k # "Column"
    THEN Error("TypeError", "linked_column")
    ELSE [k |-> "LinkedColumn", linked_table |-> linked_table, column |-> column]

AliasedTable(table, alias_name) ==
    IF table.k \notin {"Table", "LinkedTable"} THEN Error("TypeError", "table_type")
    ELSE [k |-> "AliasedTable", table |-> table, alias_name |-> alias_name]

AliasedColumn(aliased_table, column) ==
    IF aliased_table.k # "AliasedTable" THEN Error("TypeError", "table_type")
    ELSE [k |-> "AliasedColumn", aliased_table |-> aliased_table, column |-> column]

\* TableExpr._make_column
make_column(self, column_entity) ==
    CASE self.k = "Table" -> column_entity
      [] self.k = "LinkedTable" -> LinkedColumn(self, column_entity)
      [] self.k = "AliasedTable" -> AliasedColumn(self, column_entity)

\* TableExpr.column
column(self, column_or_name) ==
    IF IsColumnExpr(column_or_name)
    THEN IF ~column_exists(entity(self), entity(column_or_name))
         THEN Error("RuntimeError", "column_does_not_exist")
         ELSE make_column(self, entity(column_or_name))
    ELSE LET c == column_by_name(entity(self), column_or_name.v)
         IN  IF IsError(c) THEN c ELSE make_column(self, c)

\* TableExpr.alias
alias(self, alias_name) ==
    CASE self.k = "Table" -> AliasedTable(self, alias_name)
      [] self.k = "LinkedTable" -> AliasedTable(self, alias_name)
      [] self.k = "AliasedTable" -> AliasedTable(self.table, alias_name)

-----------------------------------------------------------------------------
(* link_to and its surface syntaxes *)

SchemaExprs(schemas) == [k |-> "SchemaExprs", schemas |-> schemas]

\* the elements an iterable target yields
Elements(val) == IF val.k = "tuple" THEN val.items ELSE val.schemas

RECURSIVE link_to(_, _)

\* SchemaExprs(map(self.link_to, val))
RECURSIVE map_link_to(_, _, _, _)
map_link_to(self, vals, i, acc) ==
    IF i > Len(vals) THEN SchemaExprs(acc)
    ELSE LET r == link_to(self, vals[i])
         IN  IF IsError(r) THEN r ELSE map_link_to(self, vals, i + 1, Append(acc, r))

\* SchemaExprs.link_to: SchemaExprs(s.link_to(val) for s in self.schemas)
RECURSIVE SchemaExprs_link_to(_, _, _, _)
SchemaExprs_link_to(schemas, val, i, acc) ==
    IF i > Len(schemas) THEN SchemaExprs(acc)
    ELSE LET r == link_to(schemas[i], val)
         IN  IF IsError(r) THEN r
             ELSE SchemaExprs_link_to(schemas, val, i + 1, Append(acc, r))

Database_link_to(val) ==
    IF val.k = "str" \/ IsTableExpr(val) THEN Database_table(val)
    ELSE IF IsIterable(val) THEN map_link_to(Database, Elements(val), 1, <<>>)
    ELSE Error("TypeError", "unexpected_type")

TableExpr_link_to(self, val) ==
    CASE val.k = "str" -> column(self, val)
      [] val.k = "Table" ->
           LET c == LinkColumnTo(entity(self), val)
           IN  IF IsError(c) THEN c ELSE LinkedTable(val, c)
      [] val.k = "Column" ->
           IF column_exists(entity(self), val) THEN column(self, val)
           ELSE LET t == link_to(self, TableOfColumn(val))
                IN  IF IsError(t) THEN t ELSE column(t, val)
      [] val.k = "LinkedTable" ->
           LET c == link_to(self, val.linking_column)
           IN  IF IsError(c) THEN c ELSE link_to(c, val.table)
      [] val.k = "LinkedColumn" ->
           LET t == link_to(self, val.linked_table)
           IN  IF IsError(t) THEN t ELSE column(t, val.column)
      [] val.k = "AliasedTable" ->
           LET t == link_to(self, val.table)
           IN  IF IsError(t) THEN t ELSE AliasedTable(t, val.alias_name)
      [] val.k = "AliasedColumn" ->
           LET t == link_to(self, val.aliased_table)
           IN  IF IsError(t) THEN t ELSE column(t, val.column)
      [] IsIterable(val) -> map_link_to(self, Elements(val), 1, <<>>)
      [] OTHER -> Error("TypeError", "unexpected_type")

\* val.Table in ColumnExpr.link_to: LinkedTable has the attribute table
\* only.  sql/schema.py routes the miss through SchemaExpr.__getattr__, that
\* is through val.link_to('Table')
LinkedTable_Table(val) ==
    IF impl = "sql_query" THEN Error("AttributeError", "Table")
    ELSE LET a == link_to(val, Str("Table"))
         IN  IF IsError(a) /\ a.err = "KeyError"
             THEN Error("AttributeError", "Table") ELSE a

ColumnExpr_link_to(self, val) ==
    CASE val.k = "str" ->
           LET t == Database_table(val)
           IN  IF IsError(t) THEN t ELSE link_to(self, t)
      [] val.k = "Table" -> LinkedTable(val, self)
      [] val.k = "Column" ->
           LET t == link_to(self, TableOfColumn(val))
           IN  IF IsError(t) THEN t ELSE column(t, val)
      [] val.k = "LinkedTable" ->
           LET c == link_to(self, val.linking_column)
               a == LinkedTable_Table(val)
           IN  IF IsError(c) THEN c
               ELSE IF IsError(a) THEN a ELSE link_to(c, a)
      [] val.k = "LinkedColumn" ->
           LET t == link_to(self, val.linked_table)
           IN  IF IsError(t) THEN t ELSE column(t, val.column)
      [] val.k = "AliasedTable" ->
           LET t == link_to(self, val.table)
           IN  IF IsError(t) THEN t ELSE AliasedTable(t, val.alias_name)
      [] val.k = "AliasedColumn" ->
           LET t == link_to(self, val.aliased_table)
           IN  IF IsError(t) THEN t ELSE column(t, val.column)
      [] IsIterable(val) -> map_link_to(self, Elements(val), 1, <<>>)
      [] OTHER -> Error("TypeError", "unexpected_type")

link_to(self, val) ==
    CASE self.k = "Database" -> Database_link_to(val)
      [] IsTableExpr(self) -> TableExpr_link_to(self, val)
      [] self.k \in {"Column", "LinkedColumn"} -> ColumnExpr_link_to(self, val)
      [] self.k = "AliasedColumn" -> link_to(self.column, val)
      [] self.k = "SchemaExprs" -> SchemaExprs_link_to(self.schemas, val, 1, <<>>)

\* hasattr(val, 'link_to')
HasLinkTo(val) == val.k \notin {"str", "tuple", "int"}

\* self[val]: SchemaExpr.__getitem__; AliasedColumn.__getitem__ is self.column[val]
getitem(self, val) ==
    IF self.k = "AliasedColumn" /\ impl = "sql_query" THEN link_to(self.column, val)
    ELSE link_to(self, val)

\* self >> val: SchemaExpr.__rshift__ (and AliasedColumn.__rshift__)
rshift(self, val) == link_to(self, val)

\* __lshift__ with the operands of link_to left in the order written
SchemaExpr_lshift_unswapped(self, val) ==
    IF ~HasLinkTo(val) THEN Error("TypeError", "unsupported_operand")
    ELSE link_to(self, val)

\* SchemaExpr.__lshift__ (and AliasedColumn.__lshift__): self << val
SchemaExpr_lshift(self, val) ==
    IF ~HasLinkTo(val)
    THEN IF self.k = "AliasedColumn" /\ impl = "sql_query"
         THEN Error("NotImplementedError", "lshift")
         ELSE Error("TypeError", "unsupported_operand")
    ELSE link_to(val, self)

\* SchemaExpr.__rlshift__: val << self
SchemaExpr_rlshift(self, val) == link_to(self, val)

\* the expression left << right: the left operand's __lshift__ when it is a
\* schema expression, else the right operand's __rlshift__
lshift(left, right) ==
    IF HasLinkTo(left) THEN SchemaExpr_lshift(left, right)
    ELSE IF HasLinkTo(right) THEN SchemaExpr_rlshift(right, left)
    ELSE Error("TypeError", "unsupported_operand")

-----------------------------------------------------------------------------
(* column_connections *)

Hop(column_from, column_to) == << column_from, column_to >>

RECURSIVE column_connections(_)
column_connections(e) ==
    CASE e.k \in {"Table", "Column"} -> <<>>
      [] e.k = "LinkedColumn" -> column_connections(e.linked_table)
      [] e.k = "LinkedTable" ->
           LET c == entity(e.linking_column)
           IN  column_connections(e.linking_column)
                 \o << Hop(c, link_table_columns[c][TableNameOf(e.table.id)]) >>
      [] e.k = "AliasedColumn" -> column_connections(e.aliased_table)
      [] e.k = "AliasedTable" ->
           IF e.table.k = "LinkedTable"
           THEN LET c == entity(e.table.linking_column)
                    to == link_table_columns[c][TableNameOf(e.table.table.id)]
                IN  column_connections(e.table.linking_column)
                      \o << Hop(c, entity(column(e, to))) >>
           ELSE <<>>

-----------------------------------------------------------------------------
(* SQLQuery: text composition and __sql__ *)

\* the token of the backtick character (a TLA+ string cannot hold one)
BQ == "<backtick>"

\* SQLQuery._add_text
_add_text(q, text) ==
    IF text = <<>> THEN q
    ELSE IF q # <<>> /\ q[Len(q)] \notin {".", "("} /\ text[1] \notin {".", "(", ")"}
         THEN q \o << " " >> \o text
         ELSE q \o text

\* SQLQuery.__init__: parts holds the text _to_str gives for each argument
RECURSIVE SQLQuery(_)
SQLQuery(parts) ==
    IF parts = <<>> THEN <<>>
    ELSE _add_text(SQLQuery(SubSeq(parts, 1, Len(parts) - 1)), parts[Len(parts)])

\* _to_str of an iterable: ', '.join(map(cls._to_str, obj))
RECURSIVE join_comma(_)
join_comma(texts) ==
    IF texts = <<>> THEN <<>>
    ELSE IF Len(texts) = 1 THEN texts[1]
    ELSE join_comma(SubSeq(texts, 1, Len(texts) - 1)) \o << ",", " " >>
           \o texts[Len(texts)]

\* q_obj(name): the name between two backticks, each backtick inside it
\* doubled; no declared name holds one, so the name passes through as it is
q_obj(name) == << BQ, name, BQ >>

\* __sql__ of a schema expression
RECURSIVE sql(_)
sql(e) ==
    CASE e.k = "Table" -> q_obj(TableNameOf(e.id))
      [] e.k = "Column" ->
           SQLQuery(<< sql(TableOfColumn(e)), SQLQuery(<< << "." >>, q_obj(e.name) >>) >>)
      [] e.k = "LinkedColumn" -> sql(e.column)
      [] e.k = "LinkedTable" -> sql(e.table)
      [] e.k = "AliasedColumn" ->
           SQLQuery(<< sql(e.aliased_table),
                       SQLQuery(<< << "." >>, q_obj(entity(e.column).name) >>) >>)
      [] e.k = "AliasedTable" -> q_obj(e.alias_name)

\* __full_sql__
full_sql(e) ==
    IF e.k = "AliasedTable"
    THEN SQLQuery(<< sql(e.table), << "AS" >>, q_obj(e.alias_name) >>)
    ELSE sql(e)

-----------------------------------------------------------------------------
(* Select: extract_column_exprs, tables_query, sql_query *)

\* Select.extract_column_exprs over the list all_exprs() yields
RECURSIVE extract_column_exprs(_)
extract_column_exprs(expr) ==
    CASE expr.k = "list" ->
           IF expr.items = <<>> THEN [raised |-> None, exprs |-> <<>>]
           ELSE LET h == extract_column_exprs(Head(expr.items))
                    t == extract_column_exprs([k |-> "list", items |-> Tail(expr.items)])
                IN  IF IsError(h.raised) THEN h
                    ELSE IF IsError(t.raised) THEN t
                    ELSE [raised |-> None, exprs |-> h.exprs \o t.exprs]
      [] IsColumnExpr(expr) -> [raised |-> None, exprs |-> << expr >>]
      [] expr.k = "OpExpr" ->
           extract_column_exprs([k |-> "list", items |-> << expr.larg, expr.rarg >>])
      [] expr.k = "FuncExpr" ->
           extract_column_exprs([k |-> "list", items |-> expr.args])
      [] OTHER -> [raised |-> Error("TypeError", "unexpected_type"), exprs |-> <<>>]

\* the test of tables_query that lets new_con into c_cons
admits(c_cons, new_con) ==
    \A i \in DOMAIN c_cons :
        is_same(new_con[1], c_cons[i][1]) /\ is_same(new_con[2], c_cons[i][2])

\* for new_con in column_cons: ... c_cons.append(new_con)
RECURSIVE add_connections(_, _)
add_connections(c_cons, column_cons) ==
    IF column_cons = <<>> THEN c_cons
    ELSE add_connections(
             IF admits(c_cons, Head(column_cons))
             THEN Append(c_cons, Head(column_cons)) ELSE c_cons,
             Tail(column_cons))

GroupIndex(groups, name) ==
    IF \E i \in DOMAIN groups : groups[i].name = name
    THEN CHOOSE i \in DOMAIN groups : groups[i].name = name
    ELSE 0

\* the first loop of tables_query: groups is tables_column_connections, a
\* dict in insertion order
RECURSIVE tables_column_connections(_, _)
tables_column_connections(groups, column_exprs) ==
    IF column_exprs = <<>> THEN groups
    ELSE LET column_cons == column_connections(Head(column_exprs))
             name == TableNameOf(column_cons[1][1].tab)
             g == GroupIndex(groups, name)
             with == IF g = 0 THEN Append(groups, [name |-> name, cons |-> <<>>])
                     ELSE groups
             at == IF g = 0 THEN Len(with) ELSE g
         IN  IF column_cons = <<>>
             THEN tables_column_connections(groups, Tail(column_exprs))
             ELSE tables_column_connections(
                      [with EXCEPT ![at].cons = add_connections(@, column_cons)],
                      Tail(column_exprs))

\* the JOIN clauses of one group, appended to c_query with +=
RECURSIVE join_clauses(_, _)
join_clauses(c_query, cons) ==
    IF cons = <<>> THEN c_query
    ELSE LET column_from == Head(cons)[1]
             column_to == Head(cons)[2]
             c_table_query == IF column_to.k = "AliasedColumn"
                              THEN full_sql(column_to.aliased_table)
                              ELSE sql(TableOfColumn(column_to))
         IN  join_clauses(
                 _add_text(c_query,
                     SQLQuery(<< << "INNER JOIN" >>, c_table_query, << "ON" >>,
                                 sql(column_from), << "=" >>, sql(column_to) >>)),
                 Tail(cons))

\* the second loop of tables_query
tables_joins(groups) ==
    [i \in DOMAIN groups |->
        join_clauses(SQLQuery(<< sql(Database_table(Str(groups[i].name))) >>),
                     groups[i].cons)]

tables_query(column_exprs) ==
    LET x == extract_column_exprs([k |-> "list", items |-> column_exprs])
    IN  IF IsError(x.raised) THEN [raised |-> x.raised, q |-> <<>>]
        ELSE [raised |-> None,
              q |-> SQLQuery(<< join_comma(
                        tables_joins(tables_column_connections(<<>>, x.exprs))) >>)]

\* Select.sql_query of Select(db, columns), every optional operand None
sql_query(column_exprs) ==
    LET t == tables_query(column_exprs)
    IN  IF IsError(t.raised) THEN t
        ELSE [raised |-> None,
              q |-> SQLQuery(<< << "SELECT" >>,
                                join_comma([i \in DOMAIN column_exprs |-> sql(column_exprs[i])]),
                                << "FROM" >>, t.q >>)]

-----------------------------------------------------------------------------
(* Expressions: Value, Values, OpExpr, FuncExpr and their __sql__ *)

\* sql_keywords.operators
operators ==
    {"AND", "&&", "=", ":=", "BETWEEN ... AND ...", "BINARY", "&", "~", "|", "^",
     "CASE", "DIV", "/", "<=>", ">", ">=", "IS", "IS NOT", "IS NOT NULL",
     "IS NULL", "<<", "<", "<=", "LIKE", "-", "%", "MOD", "NOT", "!",
     "NOT BETWEEN ... AND ...", "!=", "<>", "NOT LIKE", "NOT REGEXP", "||", "OR",
     "+", "REGEXP", ">>", "RLIKE", "SOUNDS LIKE", "*", "XOR"}

\* sql_keywords.functions: of its names, the ones the callers below use
functions == {"ABS", "AVG", "COUNT", "MAX", "MIN", "SUM"}

Value(v) == [k |-> "Value", v |-> v]

Values(values) == [k |-> "Values", values |-> values]

\* to_expr: an Expr passes through, a tuple or list becomes Values, anything
\* else a Value
RECURSIVE to_expr(_)
to_expr(v) ==
    CASE v.k \in {"int", "str"} -> Value(v)
      [] v.k = "tuple" -> Values([i \in DOMAIN v.items |-> to_expr(v.items[i])])
      [] OTHER -> v

\* OpExpr.__init__ and FuncExpr.__init__ store their arguments and test
\* nothing
OpExpr(op, larg, rarg) ==
    [k |-> "OpExpr", op |-> op, larg |-> to_expr(larg), rarg |-> to_expr(rarg)]

FuncExpr(name, args) ==
    [k |-> "FuncExpr", name |-> name, args |-> [i \in DOMAIN args |-> to_expr(args[i])]]

\* str(n) of a non-negative int, one token for each digit
RECURSIVE str_int(_)
str_int(n) ==
    LET digit == << "0", "1", "2", "3", "4", "5", "6", "7", "8", "9" >>
    IN  IF n < 10 THEN << digit[n + 1] >>
        ELSE str_int(n \div 10) \o << digit[(n % 10) + 1] >>

\* the first error among the results rs, or None
FirstRaised(rs) ==
    IF \E i \in DOMAIN rs : IsError(rs[i].raised)
    THEN rs[CHOOSE i \in DOMAIN rs :
                /\ IsError(rs[i].raised)
                /\ \A j \in 1..(i - 1) : ~IsError(rs[j].raised)].raised
    ELSE None

Rendering(q) == [raised |-> None, q |-> q]

Raising(e) == [raised |-> e, q |-> <<>>]

\* SQLQuery(*parts) over parts that may raise while they are converted
SQLQueryOf(rs) ==
    IF IsError(FirstRaised(rs)) THEN Raising(FirstRaised(rs))
    ELSE Rendering(SQLQuery([i \in DOMAIN rs |-> rs[i].q]))

\* SQLQuery._to_str of a list: ', '.join(map(cls._to_str, obj))
JoinOf(rs) ==
    IF IsError(FirstRaised(rs)) THEN Raising(FirstRaised(rs))
    ELSE Rendering(join_comma([i \in DOMAIN rs |-> rs[i].q]))

\* SQLQuery._to_str(obj) of an expression: obj.__sql__().query(), or the
\* error __sql__ raises.  Values defines __iter__, so _to_str takes it for an
\* iterable, and iter() refuses the list that __iter__ returns.
RECURSIVE to_str(_)
to_str(e) ==
    CASE e.k = "Value" ->
           IF e.v.k = "int" THEN Rendering(str_int(e.v.v))
           ELSE Rendering(<< "\"", e.v.v >>)
      [] e.k = "Values" -> Raising(Error("TypeError", "iter_returned_non_iterator"))
      [] e.k = "OpExpr" ->
           IF e.op \notin operators THEN Raising(Error("RuntimeError", "unknown_operator"))
           ELSE SQLQueryOf(<< Rendering(<< "(" >>), to_str(e.larg), Rendering(<< e.op >>),
                              to_str(e.rarg), Rendering(<< ")" >>) >>)
      [] e.k = "FuncExpr" ->
           IF e.name \notin functions THEN Raising(Error("RuntimeError", "unknown_function"))
           ELSE SQLQueryOf(<< Rendering(<< e.name >>), Rendering(<< "(" >>),
                              JoinOf([i \in DOMAIN e.args |-> to_str(e.args[i])]),
                              Rendering(<< ")" >>) >>)
      [] OTHER -> Rendering(sql(e))

-----------------------------------------------------------------------------
(* Select with its optional operands *)

\* str.upper() on the letters of the direction markers
upper(s) ==
    [i \in DOMAIN s |->
        CASE s[i] = "a" -> "A"
          [] s[i] = "s" -> "S"
          [] s[i] = "c" -> "C"
          [] s[i] = "d" -> "D"
          [] s[i] = "e" -> "E"
          [] OTHER -> s[i]]

\* _is_asc_or_desc without upper(): the markers in upper case only
_is_asc_or_desc_exact(s) ==
    IF s \in {<< "+" >>, << "A" >>, << "A", "S", "C" >>}
    THEN [k |-> "bool", v |-> TRUE]
    ELSE IF s \in {<< "-" >>, << "D" >>, << "D", "E", "S", "C" >>}
         THEN [k |-> "bool", v |-> FALSE]
         ELSE Error("RuntimeError", "invalid_asc_or_desc")

\* Select._is_asc_or_desc; s is a str, given as its characters
_is_asc_or_desc(s) ==
    IF s = << "+" >> \/ upper(s) = << "A" >> \/ upper(s) = << "A", "S", "C" >>
    THEN [k |-> "bool", v |-> TRUE]
    ELSE IF s = << "-" >> \/ upper(s) = << "D" >>
              \/ upper(s) = << "D", "E", "S", "C" >>
         THEN [k |-> "bool", v |-> FALSE]
         ELSE Error("RuntimeError", "invalid_asc_or_desc")

List(items) == [k |-> "list", items |-> items]

\* iter(items): an iterator a caller hands over, good for one pass
Iter(items) == [k |-> "iter", items |-> items]

\* list(x) that keeps x as it was given
list_kept(x) == x

\* list(x): a new list of what x yields
list(x) == List(x.items)

\* what a pass over the operand leaves of it: a list is untouched, an
\* iterator is exhausted
Iterated(operand) ==
    IF operand = None \/ operand.k = "list" THEN operand ELSE Iter(<<>>)

\* one (expr, ad_str) pair of the order argument
OrderBy(expr, ad_str) == [expr |-> expr, ad_str |-> ad_str]

\* Select.__init__
Select_init(columns, where, group, having, order, count, offset) ==
    LET dirs == IF order = None THEN <<>>
                ELSE [i \in DOMAIN order.items |-> _is_asc_or_desc(order.items[i].ad_str)]
        bad  == { i \in DOMAIN dirs : IsError(dirs[i]) }
    IN  IF bad # {} THEN dirs[CHOOSE i \in bad : \A j \in bad : i <= j]
        ELSE [k |-> "Select",
              column_exprs |-> columns,
              where_expr |-> IF where = None THEN None ELSE to_expr(where),
              group_exprs |-> IF group = None THEN None ELSE list(group),
              having_expr |-> IF having = None THEN None ELSE to_expr(having),
              order_exprs |-> IF order = None THEN None
                              ELSE List([i \in DOMAIN order.items |->
                                           << order.items[i].expr, dirs[i].v >>]),
              count |-> count,
              offset |-> offset]

\* Select.all_exprs
all_exprs(self) ==
    self.column_exprs
      \o (IF self.where_expr = None THEN <<>> ELSE << self.where_expr >>)
      \o (IF self.group_exprs = None THEN <<>> ELSE self.group_exprs.items)
      \o (IF self.having_expr = None THEN <<>> ELSE << self.having_expr >>)
      \o (IF self.order_exprs = None THEN <<>>
          ELSE [i \in DOMAIN self.order_exprs.items |-> self.order_exprs.items[i][1]])

\* SQLQuery(keyword, operand), the text that q += appends; when the operand
\* is None no text is appended
Clause(keyword, operand, r) ==
    IF operand = None THEN Rendering(<<>>)
    ELSE SQLQueryOf(<< Rendering(<< keyword >>), r >>)

\* one entry of ORDER BY: SQLQuery(column, 'ASC' if dstr else 'DESC')
OrderEntry(entry) ==
    SQLQueryOf(<< to_str(entry[1]), Rendering(<< IF entry[2] THEN "ASC" ELSE "DESC" >>) >>)

\* the items of an operand that is a list, none for None
Items(operand) == IF operand = None THEN <<>> ELSE operand.items

\* Select.sql_query: tables_query() runs before anything is rendered, then
\* the clauses are appended in order with +=
Select_sql_query(self) ==
    SQLQueryOf(<<
        [raised |-> tables_query(all_exprs(self)).raised, q |-> <<>>],
        Rendering(<< "SELECT" >>),
        JoinOf([i \in DOMAIN self.column_exprs |-> to_str(self.column_exprs[i])]),
        Rendering(<< "FROM" >>),
        [raised |-> None, q |-> tables_query(all_exprs(self)).q],
        Clause("WHERE", self.where_expr, to_str(self.where_expr)),
        Clause("GROUP BY", self.group_exprs,
               JoinOf([i \in DOMAIN Items(self.group_exprs) |->
                         to_str(Items(self.group_exprs)[i])])),
        Clause("HAVING", self.having_expr, to_str(self.having_expr)),
        Clause("ORDER BY", self.order_exprs,
               JoinOf([i \in DOMAIN Items(self.order_exprs) |->
                         OrderEntry(Items(self.order_exprs)[i])])),
        Clause("LIMIT", self.count, Rendering(str_int(self.count.v))),
        Clause("OFFSET", self.offset, Rendering(str_int(self.offset.v))) >>)

\* the Select after sql_query() returned: the method assigns to no
\* attribute, and its passes over group_exprs (all_exprs, GROUP BY) leave the
\* operand as iteration leaves it
after_sql_query(self) == [self EXCEPT !.group_exprs = Iterated(@)]

-----------------------------------------------------------------------------
(* The callers: the expressions and column lists they build *)

\* t.alias(name), written as a navigation step
AliasStep(name) == [k |-> "alias", name |-> name]

\* db[s1][s2]... : each step is a target of [] or an alias() call
RECURSIVE navigate(_, _)
navigate(origin, steps) ==
    IF steps = <<>> \/ IsError(origin) THEN origin
    ELSE LET step == Head(steps)
             r == IF step.k = "alias"
                  THEN IF IsTableExpr(origin) THEN alias(origin, step.name)
                       ELSE Error("TypeError", "alias_of_column")
                  ELSE IF IsError(step) THEN step
                  ELSE getitem(origin, step)
         IN  navigate(r, Tail(steps))

\* the table a caller holds after `t = db[name]`
T(name) == Database_table(Str(name))

AliasNames == {"items1", "items2"}

ConstructedTables == { TableObj(d) : d \in Constructed }

ConstructedColumns ==
    UNION { { ColumnsOf(d)[i] : i \in DOMAIN ColumnsOf(d) } : d \in Constructed }

\* the navigation programs of sq_test.py and test_sql_query.py, as the steps
\* applied to the database
TestPath(n) ==
    CASE n = 1 -> << Str("items"), Str("id") >>
      [] n = 2 -> << Str("items"), Str("subkind_id"), Str("subkinds"),
                     Str("kind_id"), Str("kinds"), Str("name") >>
      [] n = 3 -> << Str("items"), Str("subkind_id"), Str("subkinds"), Str("name") >>
      [] n = 4 -> << Str("items"), Str("name") >>
      [] n = 5 -> << Str("items"), T("subkinds"), T("kinds"), Str("name") >>
      [] n = 6 -> << Str("items"), T("subkinds"), Str("name") >>
      [] n = 7 -> << Str("rel_item_pairs"), Str("item1_id"), T("items"),
                     AliasStep("items1"), Str("name") >>
      [] n = 8 -> << Str("rel_item_pairs"), Str("item2_id"), T("items"),
                     AliasStep("items2"), Str("name") >>

TestPathIds == 1..8

\* the column expressions sq_test.py selects
TestColumn(n) == navigate(Database, TestPath(n))

TestColumns == { c \in { TestColumn(n) : n \in TestPathIds } : ~IsError(c) }

\* every expression a test program passes through after its first m steps
Prefixes(m) ==
    LET Min(a, b) == IF a < b THEN a ELSE b
    IN  { e \in UNION { { navigate(Database, SubSeq(TestPath(n), 1, j)) :
                            j \in 0..Min(m, Len(TestPath(n))) } : n \in TestPathIds } :
            ~IsError(e) }

Origins == Prefixes(MaxOrigin)

NameTargets ==
    { Str(TableNameOf(d)) : d \in Constructed }
      \cup { Str(c.name) : c \in ConstructedColumns }
      \cup { Str("nosuch") }

Targets ==
    NameTargets \cup ConstructedTables \cup Prefixes(MaxTarget)
      \cup { Number(5), Tuple(<< Str("id"), Str("name") >>) }

\* the column lists of q1/q2 and q3 of sq_test.py
TestQueries ==
    { q \in { << TestColumn(1), TestColumn(2), TestColumn(3), TestColumn(4) >>,
              << TestColumn(1), TestColumn(5), TestColumn(6), TestColumn(4) >> } :
        \A i \in DOMAIN q : ~IsError(q[i]) }

SelectInputs ==
    TestQueries \cup UNION { [1..n -> TestColumns] : n \in 1..MaxSel }

\* a caller builds one expression or statement and looks at it; building
\* changes nothing, so the next call on the library is a schema call
CallerReady == result.op \in {"Database", "prepare_table", "resolve_references"}

\* origin[target], origin >> target, target << origin, origin.link_to(target)
Navigate(origin, target) ==
    /\ result' = [op |-> "navigate", origin |-> origin, target |-> target,
                  index |-> getitem(origin, target),
                  forward |-> rshift(origin, target),
                  reverse |-> lshift(target, origin),
                  method |-> link_to(origin, target)]
    /\ UNCHANGED <<impl, schema_vars, exec_vars>>

\* column_connections() of a composed path, or the error composing raised
ConnectionsOf(path) ==
    IF IsError(path) THEN path
    ELSE [k |-> "connections", cons |-> column_connections(path)]

\* the four ways to compose the chain A -> B -> C whose link columns are
\* a_col (A to B) and b_col (B to C)
Compose(a_col, b_col, C) ==
    LET A == TableOfColumn(a_col)
        B == TableOfColumn(b_col)
    IN  /\ a_col \in DOMAIN link_table_columns
        /\ b_col \in DOMAIN link_table_columns
        /\ TableNameOf(b_col.tab) \in DOMAIN link_table_columns[a_col]
        /\ TableNameOf(C.id) \in DOMAIN link_table_columns[b_col]
        /\ result' = [op |-> "compose", a_col |-> a_col, b_col |-> b_col, C |-> C,
                      index |-> ConnectionsOf(navigate(A, << B, C >>)),
                      forward |-> ConnectionsOf(
                          LET ab == rshift(A, B)
                          IN  IF IsError(ab) THEN ab ELSE rshift(ab, C)),
                      reverse |-> ConnectionsOf(
                          LET cb == lshift(C, B)
                          IN  IF IsError(cb) THEN cb ELSE lshift(cb, A)),
                      explicit |-> ConnectionsOf(
                          navigate(A, << Str(a_col.name), B, Str(b_col.name), C >>))]
        /\ UNCHANGED <<impl, schema_vars, exec_vars>>

\* the local tables_column_connections of tables_query when its first loop
\* ends: per origin table, in insertion order, the hops kept for its JOINs
kept_connections(column_exprs) ==
    LET x == extract_column_exprs([k |-> "list", items |-> column_exprs])
    IN  IF IsError(x.raised) THEN <<>>
        ELSE tables_column_connections(<<>>, x.exprs)

\* Select(db, columns).sql_query()
Select(columns) ==
    /\ result' = [op |-> "select", columns |-> columns,
                  connections |-> kept_connections(columns),
                  sql |-> sql_query(columns)]
    /\ UNCHANGED <<impl, schema_vars, exec_vars>>

-----------------------------------------------------------------------------

Init ==
    /\ impl \in Impls
    /\ tables = <<>>
    /\ table_dict = <<>>
    /\ column_dict = <<>>
    /\ links = <<>>
    /\ db_resolved = FALSE
    /\ table_resolved = <<>>
    /\ column_resolved = {}
    /\ link_table_columns = <<>>
    /\ link_columns_to_table = <<>>
    /\ driver = <<>>
    /\ conn = None
    /\ connection = None
    /\ operation = None
    /\ result = [op |-> "Database"]

\* the schema calls: Database.prepare_table and Database.finalize_tables
SchemaNext ==
    \/ \E d \in DeclIds : prepare_table(d)
    \/ resolve_references

\* a caller navigating between schema calls
NavigateCall ==
    CallerReady /\ LET os == Origins
                       ts == Targets
                   IN  \E origin \in os, target \in ts : Navigate(origin, target)

\* a caller composing chains between schema calls
ComposeCall ==
    CallerReady /\ \E a_col \in ConstructedColumns, b_col \in ConstructedColumns,
                      C \in ConstructedTables : Compose(a_col, b_col, C)

\* a caller rendering SELECT statements between schema calls
SelectCall ==
    CallerReady /\ \E columns \in SelectInputs : Select(columns)

Next ==
    \/ SchemaNext
    \/ NavigateCall
    \/ ComposeCall
    \/ SelectCall

Spec == Init /\ [][Next]_vars

\* the library under schema calls alone, and under each kind of caller
SchemaSpec == Init /\ [][SchemaNext]_vars

\* the declare -> resolve lifecycle over the declarations of LifecycleDeclIds
LifecycleNext ==
    \/ \E d \in LifecycleDeclIds : prepare_table(d)
    \/ resolve_references

LifecycleSpec == Init /\ [][LifecycleNext]_vars

NavigateNext == SchemaNext \/ NavigateCall

NavigateSpec == Init /\ [][NavigateNext]_vars

ComposeNext == SchemaNext \/ ComposeCall

ComposeSpec == Init /\ [][ComposeNext]_vars

SelectNext == SchemaNext \/ SelectCall

SelectSpec == Init /\ [][SelectNext]_vars

-----------------------------------------------------------------------------
(* The callers of Select with where, group, having, order, count, offset *)

\* longest direction marker the callers hand to order
MaxMarker == 4

\* the characters of the markers: the signs, the letters of ASC and DESC in
\* both cases, and a letter of neither word
MarkerChars == {"+", "-", "A", "a", "S", "s", "C", "c", "D", "d", "E", "e", "x"}

Markers == UNION { [1..n -> MarkerChars] : n \in 0..MaxMarker }

\* the tables the statements below select from
BuildDeclIds == {"kinds", "subkinds"}

\* db['kinds'][n] once kinds is declared
BuildColumn(n) == ColumnObj(table_dict["kinds"], n)

BuildReady == CallerReady /\ "kinds" \in DOMAIN table_dict

\* db['subkinds'][kinds]['name'], where that navigation succeeds
LinkedColumns ==
    { c \in { navigate(Database, << Str("subkinds"), T("kinds"), Str("name") >>) } :
        ~IsError(c) }

ColumnLists ==
    { << BuildColumn("id"), BuildColumn("name") >>,
      << FuncExpr("COUNT", << BuildColumn("id") >>) >>,
      << FuncExpr("NOPE", << BuildColumn("id") >>) >> }
      \cup { << c >> : c \in LinkedColumns }

Wheres ==
    { None,
      OpExpr("=", BuildColumn("id"), BuildColumn("name")),
      OpExpr("=", BuildColumn("id"), Number(5)),
      OpExpr("**", BuildColumn("id"), BuildColumn("name")) }

Groups ==
    { None, List(<<>>), List(<< BuildColumn("name") >>),
      Iter(<< BuildColumn("name") >>) }

Havings == { None, OpExpr("<", BuildColumn("id"), BuildColumn("name")) }

Orders ==
    { None, List(<<>>),
      List(<< OrderBy(BuildColumn("name"), << "+" >>) >>),
      List(<< OrderBy(BuildColumn("name"), << "a", "s", "c" >>),
              OrderBy(BuildColumn("id"), << "D" >>) >>),
      List(<< OrderBy(BuildColumn("id"), << "u", "p" >>) >>) }

Counts == { None, Number(0), Number(10) }

Offsets == { None, Number(20) }

\* Select(db, columns, where=..., ...) followed, when the constructor
\* returned, by sql_query() and by sql_query() once more
Build(columns, where, group, having, order, count, offset) ==
    LET select == Select_init(columns, where, group, having, order, count, offset)
    IN  /\ result' = [op |-> "build", columns |-> columns, where |-> where,
                      group |-> group, having |-> having, order |-> order,
                      count |-> count, offset |-> offset, select |-> select,
                      sql |-> IF IsError(select) THEN Raising(select)
                              ELSE Select_sql_query(select),
                      after |-> IF IsError(select) THEN select
                                ELSE after_sql_query(select),
                      again |-> IF IsError(select) THEN Raising(select)
                                ELSE Select_sql_query(after_sql_query(select))]
        /\ UNCHANGED <<impl, schema_vars, exec_vars>>

\* the expressions the callers build and render on their own
Expressions ==
    ((Wheres \cup Havings) \ {None})
      \cup { FuncExpr("COUNT", << BuildColumn("id") >>),
             FuncExpr("NOPE", << BuildColumn("id") >>),
             OpExpr("+", BuildColumn("id"), Str("a")),
             OpExpr("+", FuncExpr("NOPE", << BuildColumn("id") >>), Number(1)),
             OpExpr("=", BuildColumn("id"), Tuple(<< Number(1), Number(2) >>)) }

\* an expression is built, then expr.__sql__().query() is called, and
\* list(Select.extract_column_exprs(expr))
Render(expr) ==
    /\ result' = [op |-> "render", expr |-> expr, sql |-> to_str(expr),
                  extracted |-> extract_column_exprs(expr)]
    /\ UNCHANGED <<impl, schema_vars, exec_vars>>

\* Select._is_asc_or_desc(marker), and Select(db, [], order=[(Value(1), marker)])
Order(marker) ==
    /\ result' = [op |-> "order", marker |-> marker,
                  asc |-> _is_asc_or_desc(marker),
                  select |-> Select_init(<<>>, None, None, None,
                                         List(<< OrderBy(Value(Number(1)), marker) >>),
                                         None, None)]
    /\ UNCHANGED <<impl, schema_vars, exec_vars>>

\* the overloaded operators of Expr: self <symbol> expr for the methods the
\* class defines (__truediv__ in sql/expression.py only), a TypeError of
\* Python for a symbol without a method, and self.__contains__(expr) for IN
Expr_operator(symbol, self, expr) ==
    IF symbol = "IN" THEN OpExpr("IN", expr, self)
    ELSE IF symbol \in {"+", "-", "*", "%", "&", "|", "<", "<=", "=", "!=", ">", ">="}
                          \cup (IF impl = "sql.schema" THEN {"/"} ELSE {})
         THEN OpExpr(symbol, self, expr)
         ELSE Error("TypeError", "unsupported_operand")

\* db['kinds']['id'] <symbol> expr, rendered when it was built
Operate(symbol, expr) ==
    LET built == Expr_operator(symbol, BuildColumn("id"), expr)
    IN  /\ result' = [op |-> "operator", symbol |-> symbol, expr |-> built,
                      sql |-> IF IsError(built) THEN Raising(built) ELSE to_str(built)]
        /\ UNCHANGED <<impl, schema_vars, exec_vars>>

OperateCall ==
    BuildReady /\ \E symbol \in {"+", "-", "*", "/", "%", "&", "|", "<", "<=", "=",
                                  "!=", ">", ">=", "IN", "**"},
                     expr \in {BuildColumn("name"), Number(5)} :
                      Operate(symbol, expr)

BuildCall ==
    BuildReady /\ \E columns \in ColumnLists, where \in Wheres, group \in Groups,
                     having \in Havings, order \in Orders, count \in Counts,
                     offset \in Offsets :
                      Build(columns, where, group, having, order, count, offset)

RenderCall == BuildReady /\ \E expr \in Expressions : Render(expr)

OrderCall == CallerReady /\ \E marker \in Markers : Order(marker)

BuildNext ==
    \/ \E d \in BuildDeclIds : prepare_table(d)
    \/ resolve_references
    \/ BuildCall
    \/ RenderCall
    \/ OperateCall

BuildSpec == Init /\ [][BuildNext]_vars

OrderSpec == Init /\ [][OrderCall]_vars

-----------------------------------------------------------------------------
(* Table.insert, Table.update, Table.delete, Table.select_key_with_insertion *)

\* most columns listed in an insert, most rows handed to it
MaxCols == 2

MaxRows == 2

\* bool(x) as Python computes it for the operands the callers pass: None,
\* an int, a str, and an expression, whose Expr.__bool__ raises
bool(x) ==
    CASE x = None -> [raised |-> None, truth |-> FALSE]
      [] x.k = "int" -> [raised |-> None, truth |-> x.v # 0]
      [] x.k = "str" -> [raised |-> None, truth |-> x.v # ""]
      [] OTHER ->
           [raised |-> IF impl = "sql_query" THEN Error("NotImplementedError", "bool")
                       ELSE Error("RuntimeError", "bool"),
            truth |-> FALSE]

\* Table.to_self_column without its test of column.table
to_self_column_unchecked(self, column_or_name) ==
    IF column_or_name.k = "str" THEN column(self, column_or_name) ELSE column_or_name

\* Table.to_self_column
to_self_column(self, column_or_name) ==
    LET c == IF column_or_name.k = "str" THEN column(self, column_or_name)
             ELSE column_or_name
    IN  IF IsError(c) THEN c
        ELSE IF ~is_same(TableOfColumn(c), self)
             THEN Error("RuntimeError", "column_in_other_table")
             ELSE c

\* Table.to_query_exec_val: None, bool, int, float and str pass through, a
\* date or time gives its isoformat(), anything else str(v), which an
\* expression refuses
to_query_exec_val(v) ==
    IF v = None \/ v.k \in {"int", "str"} THEN v
    ELSE IF impl = "sql_query" THEN Error("NotImplementedError", "str")
         ELSE Error("RuntimeError", "str")

\* Table.insert: the statement, and the rows of parameters exec_many reads
Table_insert(self, columns_or_names, vals_itr) ==
    LET names == [i \in DOMAIN columns_or_names |->
                    LET c == to_self_column(self, columns_or_names[i])
                    IN  IF IsError(c) THEN Raising(c) ELSE Rendering(q_obj(c.name))]
        statement ==
            SQLQueryOf(<< Rendering(<< "INSERT INTO" >>), Rendering(sql(self)),
                          Rendering(<< "(" >>), JoinOf(names), Rendering(<< ")" >>),
                          Rendering(<< "VALUES" >>), Rendering(<< "(" >>),
                          JoinOf([i \in DOMAIN columns_or_names |-> Rendering(<< "%s" >>)]),
                          Rendering(<< ")" >>) >>)
    IN  [statement |-> statement,
         params |-> IF IsError(statement.raised) THEN <<>>
                    ELSE [r \in DOMAIN vals_itr |->
                            [j \in DOMAIN vals_itr[r] |-> to_query_exec_val(vals_itr[r][j])]]]

\* SQLQuery(keyword, to_expr(operand)) if operand else None
IfGiven(keyword, operand) ==
    IF IsError(bool(operand).raised) THEN Raising(bool(operand).raised)
    ELSE IF ~bool(operand).truth THEN Rendering(<<>>)
    ELSE SQLQueryOf(<< Rendering(<< keyword >>), to_str(to_expr(operand)) >>)

\* Table.update
Table_update(self, raw_column_exprs, where, count) ==
    LET assignment(pair) ==
            LET c == to_self_column(self, pair[1])
            IN  IF IsError(c) THEN Raising(c)
                ELSE SQLQueryOf(<< to_str(c), Rendering(<< "=" >>), to_str(to_expr(pair[2])) >>)
    IN  SQLQueryOf(<< Rendering(<< "UPDATE" >>), Rendering(sql(self)), Rendering(<< "SET" >>),
                      JoinOf([i \in DOMAIN raw_column_exprs |-> assignment(raw_column_exprs[i])]),
                      IfGiven("WHERE", where), IfGiven("LIMIT", count) >>)

\* Table.delete
Table_delete(self, where, count) ==
    SQLQueryOf(<< Rendering(<< "DELETE FROM" >>), Rendering(sql(self)),
                  IfGiven("WHERE", where), IfGiven("LIMIT", count) >>)

\* Table.select_key_with_insertion: key_column is set on every constructed
\* table; columns in to_expr(records) is bool(OpExpr('IN', columns,
\* to_expr(records))), evaluated before select is called.  Table.select
\* returns what Select.exec returns, None, which the comprehension iterates.
select_key_with_insertion(self, columns, records_itr) ==
    LET records == list(records_itr)
        found == bool(OpExpr("IN", Tuple(columns), Tuple(records.items)))
    IN  IF IsError(found.raised)
        THEN [raised |-> found.raised, selected |-> 0, inserted |-> <<>>, mapping |-> <<>>]
        ELSE [raised |-> Error("TypeError", "not_iterable"), selected |-> 1,
              inserted |-> <<>>, mapping |-> <<>>]

\* db['kinds'] once kinds is declared
MutatedTable == TableObj(table_dict["kinds"])

Insert(columns_or_names, vals_itr) ==
    /\ result' = [op |-> "insert", columns |-> columns_or_names, rows |-> vals_itr]
                   @@ Table_insert(MutatedTable, columns_or_names, vals_itr)
    /\ UNCHANGED <<impl, schema_vars, exec_vars>>

Update(raw_column_exprs, where, count) ==
    /\ result' = [op |-> "update", sets |-> raw_column_exprs, where |-> where,
                  count |-> count,
                  statement |-> Table_update(MutatedTable, raw_column_exprs, where, count)]
    /\ UNCHANGED <<impl, schema_vars, exec_vars>>

Delete(where, count) ==
    /\ result' = [op |-> "delete", where |-> where, count |-> count,
                  statement |-> Table_delete(MutatedTable, where, count)]
    /\ UNCHANGED <<impl, schema_vars, exec_vars>>

\* two successive calls of select_key_with_insertion on db['kinds']
SelectKeyWithInsertion(columns, records_itr, again_itr) ==
    /\ result' = [op |-> "select_key_with_insertion", columns |-> columns,
                  records |-> records_itr, again |-> again_itr,
                  first |-> select_key_with_insertion(MutatedTable, columns, records_itr),
                  second |-> select_key_with_insertion(MutatedTable, columns, again_itr)]
    /\ UNCHANGED <<impl, schema_vars, exec_vars>>

\* the columns and names the callers list, with the id column of every
\* declared table
ListedColumns ==
    { Str("id"), Str("name"), Str("nope"), BuildColumn("name") }
      \cup { ColumnObj(table_dict[t], "id") : t \in DOMAIN table_dict }

\* the rows the callers insert
Rows ==
    { Tuple(<< Number(1), Str("a") >>), Tuple(<< Number(2), Str("b") >>),
      Tuple(<< Str("a") >>) }

InsertCall ==
    BuildReady /\ \E columns_or_names \in UNION { [1..n -> ListedColumns] : n \in 0..MaxCols },
                     vals_itr \in UNION { [1..n -> { r.items : r \in Rows }] : n \in 0..MaxRows } :
                      Insert(columns_or_names, vals_itr)

UpdateCall ==
    BuildReady /\ \E raw_column_exprs \in
                       { <<>>, << << Str("name"), Str("x") >> >>,
                         << << BuildColumn("name"), Number(1) >>, << Str("id"), Number(2) >> >>,
                         << << Str("nope"), Number(1) >> >> },
                     where \in Wheres \cup { Str("id = 5"), Number(0) },
                     count \in Counts :
                      Update(raw_column_exprs, where, count)

DeleteCall ==
    BuildReady /\ \E where \in Wheres \cup { Str("id = 5"), Number(0) }, count \in Counts :
                    Delete(where, count)

SelectKeyWithInsertionCall ==
    BuildReady /\ \E records \in UNION { [1..n -> Rows] : n \in 0..MaxRows },
                     again \in UNION { [1..n -> Rows] : n \in 0..MaxRows },
                     one_shot \in BOOLEAN :
                      SelectKeyWithInsertion(<< BuildColumn("id"), BuildColumn("name") >>,
                                             IF one_shot THEN Iter(records) ELSE List(records),
                                             List(again))

MutateNext ==
    \/ \E d \in BuildDeclIds : prepare_table(d)
    \/ resolve_references
    \/ InsertCall
    \/ UpdateCall
    \/ DeleteCall
    \/ SelectKeyWithInsertionCall

MutateSpec == Init /\ [][MutateNext]_vars

-----------------------------------------------------------------------------
(* SQLExecutor of sql_query.py; Connection and Operation of sql/executor.py *)

\* most connections and cursors acquired from the driver, and most close()
\* calls the callers make reach one of them
MaxAcquire == 3

MaxCloses == 2

\* mysql.connector.connect(...) and connection.cursor(): the driver hands
\* out a new object; close() on it is counted
Acquired(kind) == Append(driver, [kind |-> kind, closes |-> 0])

DriverClose(id) == [driver EXCEPT ![id].closes = @ + 1]

CanAcquire == Len(driver) < MaxAcquire

\* SQLExecutor.close_connection
close_connection ==
    /\ impl = "sql_query"
    /\ IF conn # None THEN driver[conn.id].closes < MaxCloses ELSE TRUE
    /\ driver' = IF conn # None THEN DriverClose(conn.id) ELSE driver
    /\ result' = [op |-> "close_connection"]
    /\ UNCHANGED <<impl, schema_vars, conn, connection, operation>>

\* SQLExecutor.connect: close_connection(), then conn = connect(...)
connect ==
    /\ impl = "sql_query"
    /\ CanAcquire
    /\ IF conn # None THEN driver[conn.id].closes < MaxCloses ELSE TRUE
    /\ driver' = Append(IF conn # None THEN DriverClose(conn.id) ELSE driver,
                        [kind |-> "connection", closes |-> 0])
    /\ conn' = [k |-> "MySQLConnection", id |-> Len(driver) + 1]
    /\ result' = [op |-> "connect"]
    /\ UNCHANGED <<impl, schema_vars, connection, operation>>

\* Connection(db, mysql.connector.connect(...)): Connection.__init__
Connection_init ==
    /\ impl = "sql.schema"
    /\ connection = None
    /\ CanAcquire
    /\ driver' = Acquired("connection")
    /\ connection' = [k |-> "Connection", _con |-> Len(driver) + 1, closed |-> FALSE]
    /\ result' = [op |-> "Connection"]
    /\ UNCHANGED <<impl, schema_vars, conn, operation>>

\* Connection.close, and Connection.__exit__ and Connection.__del__, which
\* call it; after __del__ the object is gone.  An Operation made of the
\* Connection holds a reference to it.
Connection_close(via) ==
    /\ connection # None
    /\ IF via = "__del__" /\ operation # None THEN operation.con.k # "Connection" ELSE TRUE
    /\ driver' = IF ~connection.closed THEN DriverClose(connection._con) ELSE driver
    /\ connection' = IF via = "__del__" THEN None ELSE [connection EXCEPT !.closed = TRUE]
    /\ result' = [op |-> "Connection.close", via |-> via, raised |-> None,
                  held |-> {connection._con}]
    /\ UNCHANGED <<impl, schema_vars, conn, operation>>

AlreadyClosed(what) == Error("RuntimeError", what)

\* Connection.operate: Operation(db, self.con.cursor()), the cursor taking
\* the place of the Connection argument
Connection_operate ==
    /\ connection # None
    /\ operation = None
    /\ CanAcquire
    /\ IF connection.closed
       THEN /\ result' = [op |-> "operate", raised |-> AlreadyClosed("connection_already_closed")]
            /\ UNCHANGED <<driver, operation>>
       ELSE /\ driver' = Acquired("cursor")
            /\ operation' = [k |-> "Operation",
                             con |-> [k |-> "MySQLCursor", id |-> Len(driver) + 1],
                             _cur |-> None, closed |-> FALSE]
            /\ result' = [op |-> "operate", raised |-> None]
    /\ UNCHANGED <<impl, schema_vars, conn, connection>>

\* Operation(db, connection): Operation.__init__ annotates _cur and assigns
\* nothing to it
Operation_init ==
    /\ connection # None
    /\ operation = None
    /\ operation' = [k |-> "Operation", con |-> [k |-> "Connection"],
                     _cur |-> None, closed |-> FALSE]
    /\ result' = [op |-> "Operation"]
    /\ UNCHANGED <<impl, schema_vars, driver, conn, connection>>

\* Operation.__enter__: self._cur = self.con.con.cursor()
Operation_enter ==
    /\ operation # None
    /\ CanAcquire
    /\ IF operation.con.k # "Connection"
       THEN /\ result' = [op |-> "__enter__", raised |-> Error("AttributeError", "con")]
            /\ UNCHANGED <<driver, operation>>
       ELSE IF connection.closed
       THEN /\ result' = [op |-> "__enter__",
                          raised |-> AlreadyClosed("connection_already_closed")]
            /\ UNCHANGED <<driver, operation>>
       ELSE /\ driver' = Acquired("cursor")
            /\ operation' = [operation EXCEPT !._cur = [k |-> "MySQLCursor",
                                                         id |-> Len(driver) + 1]]
            /\ result' = [op |-> "__enter__", raised |-> None]
    /\ UNCHANGED <<impl, schema_vars, conn, connection>>

\* reading self._cur before __enter__ assigned it: __getattr__ asks self.cur,
\* whose hasattr(self, '_cur') asks __getattr__ again
CurUnset == Error("RecursionError", "_cur")

\* the driver objects an Operation was given or acquired
Held(op) ==
    (IF op.con.k = "MySQLCursor" THEN {op.con.id} ELSE {})
      \cup (IF op._cur # None THEN {op._cur.id} ELSE {})

\* Operation.close, and Operation.__exit__ and Operation.__del__, which call
\* it; after __del__ the object is gone
Operation_close(via) ==
    /\ operation # None
    /\ driver' = IF ~operation.closed /\ operation._cur # None
                 THEN DriverClose(operation._cur.id) ELSE driver
    /\ operation' = IF via = "__del__" THEN None
                    ELSE IF ~operation.closed /\ operation._cur # None
                         THEN [operation EXCEPT !.closed = TRUE] ELSE operation
    /\ result' = [op |-> "Operation.close", via |-> via, held |-> Held(operation),
                  raised |-> IF ~operation.closed /\ operation._cur = None
                             THEN CurUnset ELSE None]
    /\ UNCHANGED <<impl, schema_vars, conn, connection>>

\* Operation.cur
Operation_cur(self) ==
    IF self._cur = None THEN [raised |-> CurUnset, cursor |-> None]
    ELSE IF self.closed
         THEN [raised |-> AlreadyClosed("cursor_already_closed"), cursor |-> None]
         ELSE [raised |-> None, cursor |-> self._cur]

\* a use of the Operation: op.cur, op.execute(q) and op.execute_many(q, rows).
\* execute calls q.query(), which a SQLQuery has and a Query of
\* sql/expression.py has not, after it read self.cur; execute_many asks the
\* cursor for execute_many, which no driver cursor has.  reached tells
\* whether a call arrived at the driver cursor.
Operation_use(how, q) ==
    /\ operation # None
    /\ result' = [op |-> "use", how |-> how, cursor |-> Operation_cur(operation).cursor,
                  entered |-> operation._cur # None,
                  connection_closed |->
                      operation.con.k = "Connection" /\ connection.closed,
                  raised |->
                      IF IsError(Operation_cur(operation).raised) \/ how = "cur"
                      THEN Operation_cur(operation).raised
                      ELSE IF how = "execute_many"
                           THEN Error("AttributeError", "execute_many")
                           ELSE IF q = "Query" THEN Error("AttributeError", "query")
                                ELSE None,
                  reached |-> /\ ~IsError(Operation_cur(operation).raised)
                              /\ how = "execute"
                              /\ q = "SQLQuery"]
    /\ UNCHANGED <<impl, schema_vars, exec_vars>>

ExecNext ==
    \/ connect
    \/ close_connection
    \/ Connection_init
    \/ \E via \in {"close", "__exit__", "__del__"} : Connection_close(via)
    \/ Connection_operate
    \/ Operation_init
    \/ Operation_enter
    \/ \E via \in {"close", "__exit__", "__del__"} : Operation_close(via)
    \/ \E how \in {"cur", "execute", "execute_many"}, q \in {"Query", "SQLQuery"} :
          Operation_use(how, q)

ExecSpec == Init /\ [][ExecNext]_vars

-----------------------------------------------------------------------------
(* String literals: Value.__sql__ of a str, character by character *)

\* longest string the callers make a Value of
MaxStr == 4

\* the strings over a letter, the double quote and the backslash
Strs == UNION { [1..n -> {"a", "\"", "\\"}] : n \in 0..MaxStr }

\* str.replace(old, new) for a one-character old
RECURSIVE replace(_, _, _)
replace(s, old, new) ==
    IF s = <<>> THEN <<>>
    ELSE (IF Head(s) = old THEN new ELSE << Head(s) >>) \o replace(Tail(s), old, new)

\* Value.__sql__ of a str.  Both iterations hand the text to _to_str with
\* quoted=True, which returns '"' + raw with backslashes and then double
\* quotes escaped; sql_query.py has escaped the double quotes once before.
Value_sql(v) ==
    LET raw == IF impl = "sql_query" THEN replace(v, "\"", << "\\", "\"" >>) ELSE v
    IN  << "\"" >> \o replace(replace(raw, "\\", << "\\", "\\" >>),
                              "\"", << "\\", "\"" >>)

\* Value(v).__sql__().query()
Quote(v) ==
    /\ result' = [op |-> "quote", v |-> v, sql |-> Value_sql(v)]
    /\ UNCHANGED <<impl, schema_vars, exec_vars>>

QuoteCall == CallerReady /\ \E v \in Strs : Quote(v)

QuoteSpec == Init /\ [][QuoteCall]_vars

-----------------------------------------------------------------------------
(* Vocabulary of the properties *)

\* the text of a statement without its blanks
Words(q) == SelectSeq(q, LAMBDA t : t # " ")

\* a quoted identifier, a qualified column, and one JOIN clause as SQL words
QName(n) == << BQ, n, BQ >>

QColumn(t, c) == QName(t) \o << "." >> \o QName(c)

InnerJoin(target, from_column, to_column) ==
    << "INNER JOIN" >> \o target \o << "ON" >> \o from_column \o << "=" >> \o to_column

\* the words after FROM
AfterFrom(w) ==
    LET i == CHOOSE i \in DOMAIN w : w[i] = "FROM"
    IN  SubSeq(w, i + 1, Len(w))

\* the declarations ds are registered and resolved, under names no other
\* registered table has
Resolved(ds) ==
    /\ ds \subseteq Constructed
    /\ \A d \in ds : table_resolved[d]
    /\ \A d \in ds : \A e \in Constructed : TableNameOf(e) = TableNameOf(d) => e = d

SameHop(h1, h2) == is_same(h1[1], h2[1]) /\ is_same(h1[2], h2[2])

\* the hops of a list of expressions whose paths start at the table named
\* origin, each once, in the order first seen
RECURSIVE FirstSeen(_, _)
FirstSeen(hops, acc) ==
    IF hops = <<>> THEN acc
    ELSE FirstSeen(Tail(hops),
                   IF \E i \in DOMAIN acc : SameHop(acc[i], Head(hops))
                   THEN acc ELSE Append(acc, Head(hops)))

RECURSIVE HopsFrom(_, _)
HopsFrom(origin, column_exprs) ==
    IF column_exprs = <<>> THEN <<>>
    ELSE LET cc == column_connections(Head(column_exprs))
         IN  (IF cc # <<>> /\ TableNameOf(cc[1][1].tab) = origin THEN cc ELSE <<>>)
               \o HopsFrom(origin, Tail(column_exprs))

-----------------------------------------------------------------------------
(* C1 *)

ScenarioColumns == << TestColumn(1), TestColumn(2), TestColumn(3), TestColumn(4) >>

ScenarioSQL ==
    << "SELECT" >> \o QColumn("items", "id") \o << "," >> \o QColumn("kinds", "name")
      \o << "," >> \o QColumn("subkinds", "name") \o << "," >> \o QColumn("items", "name")
      \o << "FROM" >> \o QName("items")
      \o InnerJoin(QName("subkinds"), QColumn("items", "subkind_id"), QColumn("subkinds", "id"))
      \o InnerJoin(QName("kinds"), QColumn("subkinds", "kind_id"), QColumn("kinds", "id"))

\* C1: with kinds, subkinds and items resolved, the Select of items.id,
\* items->subkinds->kinds.name, items->subkinds.name and items.name renders
\* SELECT items.id, kinds.name, subkinds.name, items.name FROM items
\* INNER JOIN subkinds ON items.subkind_id = subkinds.id
\* INNER JOIN kinds ON subkinds.kind_id = kinds.id, every identifier quoted
C1_ScenarioRendersTwoJoins ==
    (/\ result.op = "select"
     /\ Resolved({"kinds", "subkinds", "items"})
     /\ result.columns = ScenarioColumns)
        => /\ ~IsError(result.sql.raised)
           /\ Words(result.sql.q) = ScenarioSQL

-----------------------------------------------------------------------------
(* C2 *)

\* C2: whenever expressions of a Select share a hop, the hops kept for an
\* origin table hold that hop once: no (from, to) pair is joined twice
C2_NoHopJoinedTwice ==
    (result.op = "select" /\ Resolved(Constructed))
        => \A g \in DOMAIN result.connections :
               LET cons == result.connections[g].cons
               IN  \A i, j \in DOMAIN cons : i < j => ~SameHop(cons[i], cons[j])

-----------------------------------------------------------------------------
(* C3 *)

\* C3: for each origin table the hops turned into JOINs are the distinct hops
\* of the column_connections() of the selected expressions, none dropped, in
\* the order first seen, and each origin table with a hop has its group
C3_EveryHopJoinedInOrder ==
    (result.op = "select" /\ Resolved(Constructed))
        => /\ \A g \in DOMAIN result.connections :
                  result.connections[g].cons
                    = FirstSeen(HopsFrom(result.connections[g].name, result.columns), <<>>)
           /\ \A i \in DOMAIN result.columns :
                  LET cc == column_connections(result.columns[i])
                  IN  cc # <<>> =>
                        \E g \in DOMAIN result.connections :
                            result.connections[g].name = TableNameOf(cc[1][1].tab)

-----------------------------------------------------------------------------
(* C4 *)

\* the two hops of the declared chain A -> B -> C: each link column with the
\* column it was declared to reference
ChainHops(a_col, b_col, C) ==
    << Hop(a_col, link_table_columns[a_col][TableNameOf(b_col.tab)]),
       Hop(b_col, link_table_columns[b_col][TableNameOf(C.id)]) >>

\* C4: for a declared chain A -> B -> C, each of A[B][C], A >> B >> C,
\* C << B << A and A[a_col][B][b_col][C] is a path whose column_connections()
\* is the two-hop list [(A.a_col, B.key), (B.b_col, C.key)].  Stated of
\* sql_query.py, the implementation the tests import
C4_ChainKeepsBothHops ==
    (result.op = "compose" /\ impl = "sql_query" /\ Resolved(Constructed))
        => LET hops == [k |-> "connections",
                        cons |-> ChainHops(result.a_col, result.b_col, result.C)]
           IN  /\ result.index = hops
               /\ result.forward = hops
               /\ result.reverse = hops
               /\ result.explicit = hops

-----------------------------------------------------------------------------
(* C5 *)

\* the SQL a navigation result renders: one text per schema expression
RECURSIVE Rendered(_)
Rendered(e) ==
    IF e.k = "SchemaExprs" THEN [i \in DOMAIN e.schemas |-> Rendered(e.schemas[i])]
    ELSE sql(e)

\* two outcomes of a navigation agree: the same error, or results that are
\* is_same and render the same SQL
SameOutcome(a, b) ==
    IF IsError(a) \/ IsError(b) THEN a = b
    ELSE is_same(a, b) /\ Rendered(a) = Rendered(b)

\* C5: for every origin and every target, origin[target], origin >> target
\* and target << origin give what origin.link_to(target) gives: results that
\* are is_same and render identical SQL, or the same error
C5_SyntaxesAgree ==
    result.op = "navigate"
        => /\ SameOutcome(result.index, result.method)
           /\ SameOutcome(result.forward, result.method)
           /\ SameOutcome(result.reverse, result.method)

\* items[subkinds] and its two other spellings made a LinkedTable
C5_Witness ==
    /\ result.op = "navigate"
    /\ result.origin.k = "Table"
    /\ result.target.k = "Table"
    /\ result.index.k = "LinkedTable"
    /\ result.forward.k = "LinkedTable"
    /\ result.reverse.k = "LinkedTable"

-----------------------------------------------------------------------------
(* C6 and C7 *)

\* the columns of table t declared with a link to a column of table target
DeclaredLinkColumns(t, target) ==
    { c \in { ColumnsOf(t)[i] : i \in DOMAIN ColumnsOf(t) } :
        \E j \in DOMAIN links[c] : links[c][j].tab = target }

\* C6: link_to from a table-like origin to a table that two or more link
\* columns of the origin's table reference, no link column named, raises the
\* ambiguous-link error and makes no path node
C6_AmbiguousLinkRaises ==
    (/\ result.op = "navigate"
     /\ Resolved(Constructed)
     /\ IsTableExpr(result.origin)
     /\ result.target.k = "Table"
     /\ Cardinality(DeclaredLinkColumns(entity(result.origin).id, result.target.id)) >= 2)
        => /\ IsError(result.method)
           /\ result.method.why = "multiple_columns"

\* C7: when exactly one column of the origin table links to the target
\* table, link_to(origin, target) is a LinkedTable that is_same as the one
\* reached by naming that link column and then the target table
C7_SingleLinkAutoSelected ==
    (/\ result.op = "navigate"
     /\ Resolved(Constructed)
     /\ result.origin.k = "Table"
     /\ result.target.k = "Table"
     /\ Cardinality(DeclaredLinkColumns(result.origin.id, result.target.id)) = 1)
        => LET c == CHOOSE c \in DeclaredLinkColumns(result.origin.id, result.target.id) : TRUE
               explicit == navigate(result.origin,
                               << Str(c.name), Str(TableNameOf(result.target.id)) >>)
           IN  /\ ~IsError(result.method)
               /\ result.method.k = "LinkedTable"
               /\ ~IsError(explicit)
               /\ is_same(result.method, explicit)

-----------------------------------------------------------------------------
(* C8 *)

AliasedColumns == << TestColumn(7), TestColumn(8) >>

AliasedSQL ==
    << "SELECT" >> \o QColumn("items1", "name") \o << "," >> \o QColumn("items2", "name")
      \o << "FROM" >> \o QName("rel_item_pairs")
      \o InnerJoin(QName("items") \o << "AS" >> \o QName("items1"),
                   QColumn("rel_item_pairs", "item1_id"), QColumn("items1", "id"))
      \o InnerJoin(QName("items") \o << "AS" >> \o QName("items2"),
                   QColumn("rel_item_pairs", "item2_id"), QColumn("items2", "id"))

\* C8: the Select of rel_item_pairs['item1_id'][items].alias('items1')['name']
\* and rel_item_pairs['item2_id'][items].alias('items2')['name'] renders two
\* JOINs, items AS items1 and items AS items2, each ON condition and each
\* selected column naming its own alias
C8_AliasedDoubleLinkRendersTwoJoins ==
    (/\ result.op = "select"
     /\ Resolved({"items", "rel_item_pairs"})
     /\ result.columns = AliasedColumns)
        => /\ ~IsError(result.sql.raised)
           /\ Words(result.sql.q) = AliasedSQL

-----------------------------------------------------------------------------
(* C9 *)

\* C9: a Select whose expressions are all plain columns of one table renders
\* a FROM clause that names that table; the FROM clause is never empty
C9_FromNamesOwningTable ==
    (/\ result.op = "select"
     /\ Resolved(Constructed)
     /\ \A i \in DOMAIN result.columns :
            /\ result.columns[i].k = "Column"
            /\ result.columns[i].tab = result.columns[1].tab)
        => /\ ~IsError(result.sql.raised)
           /\ AfterFrom(Words(result.sql.q)) = QName(TableNameOf(result.columns[1].tab))

-----------------------------------------------------------------------------
(* C10 *)

\* C10: prepare_table with a name the Database already has registered fails
\* and changes nothing: the table list and the table found under the name
\* stay as they were
C10_DuplicateNameRejected ==
    [][\A d \in DeclIds :
          (prepare_table(d) /\ TableNameOf(d) \in DOMAIN table_dict)
              => /\ IsError(result'.raised)
                 /\ tables' = tables
                 /\ table_dict' = table_dict]_vars

-----------------------------------------------------------------------------
(* The declare -> resolve lifecycle *)

\* the tables Database.tables and Database.table_dict hold
Registered == Constructed \cup { table_dict[n] : n \in DOMAIN table_dict }

\* the last call was a declaration that raised
DeclarationRejected == result.op = "prepare_table" /\ IsError(result.raised)

\* C11: after any sequence of table declarations, every table registered in
\* the Database (tables list and table_dict) has exactly one primary-key
\* column, and a declaration that was rejected has registered nothing: its
\* table is in neither collection and none of its columns is in column_dict.
C11_RegisteredTablesHaveOnePrimaryKey ==
    /\ \A d \in Registered : Len(key_columns(d)) = 1
    /\ DeclarationRejected =>
          /\ result.table \notin Registered
          /\ \A key \in DOMAIN column_dict : column_dict[key].tab # result.table

\* the resolution state: what resolve() writes
resolution_state == <<db_resolved, table_resolved, column_resolved,
                      link_table_columns, link_columns_to_table>>

\* C12: resolve() is atomic on failure: when a resolve() call fails, no table
\* and no column is marked resolved after it, the Database is not marked
\* resolved, and the resolution state is the state before the call.
C12_ResolveAtomicOnFailure ==
    [][(resolve_references /\ IsError(result'.raised)) =>
          /\ resolution_state' = resolution_state
          /\ ~db_resolved => /\ column_resolved' = {}
                             /\ \A d \in DOMAIN table_resolved' : ~table_resolved'[d]]_vars

\* C13: resolution runs at most once per Database: once resolve() has
\* succeeded, a later resolve() call resolves no link again and rebuilds no
\* column's link table and no table's destination -> origin columns index.
C13_ResolveRunsOnce ==
    [][(db_resolved /\ resolve_references) =>
          /\ link_table_columns' = link_table_columns
          /\ link_columns_to_table' = link_columns_to_table
          /\ column_resolved' = column_resolved
          /\ table_resolved' = table_resolved]_vars

\* C14: after resolve() the schema is read-only: whenever the Database is
\* marked resolved, every table registered in it is resolved with its link
\* index built, and no declaration adds a table to a resolved Database.
C14_ResolvedSchemaReadOnly ==
    /\ db_resolved =>
          \A d \in Registered :
              /\ d \in DOMAIN table_resolved /\ table_resolved[d]
              /\ d \in DOMAIN link_columns_to_table
    /\ (db_resolved /\ result.op = "prepare_table") => result.table \notin Registered

\* a navigation that reads link information: from a table or from a column
\* to a table
NeedsLinks(origin, target) ==
    origin.k \in {"Table", "Column"} /\ target.k = "Table"

NotResolved == Error("RuntimeError", "not_resolved")

\* C15: before resolve(), every navigation that needs link information
\* fails with the 'references are not resolved' error and creates no path
\* node, from a table to a table and from a column to a table alike, in
\* each of the four syntaxes.
C15_UnresolvedNavigationFailsFast ==
    (result.op = "navigate" /\ ~db_resolved
        /\ NeedsLinks(result.origin, result.target)) =>
        /\ result.method = NotResolved
        /\ result.index = NotResolved
        /\ result.forward = NotResolved
        /\ result.reverse = NotResolved

\* the names of the tables the links of column c lead to
DestinationNames(c) == { TableNameOf(links[c][i].tab) : i \in DOMAIN links[c] }

\* column c declares two links into one table
DoubleLink(c) ==
    \E i, j \in DOMAIN links[c] :
        i # j /\ TableNameOf(links[c][i].tab) = TableNameOf(links[c][j].tab)

\* C16: at most one link per destination table.  resolve() fails when a
\* column of a registered table declares links to two columns of one table;
\* a successful resolve() resolves every registered column; and the link
\* table of every resolved column has exactly one entry for each table the
\* column links to, the entry being the declared link (a column that links
\* to two different tables keeps both).
C16_OneLinkPerDestination ==
    /\ \A c \in column_resolved :
          /\ DOMAIN link_table_columns[c] = DestinationNames(c)
          /\ \A i \in DOMAIN links[c] :
                link_table_columns[c][TableNameOf(links[c][i].tab)] = links[c][i]
    /\ result.op = "resolve_references" =>
          /\ (\E c \in ConstructedColumns : DoubleLink(c)) => IsError(result.raised)
          /\ ~IsError(result.raised) => ConstructedColumns \subseteq column_resolved

\* resolve() has failed on kind_names.kind_id after it resolved
\* subkinds.kind_id with its two destinations
C16_Witness ==
    LET kind_id == ColumnObj("subkinds_dated", "kind_id")
    IN  /\ result.op = "resolve_references"
        /\ IsError(result.raised)
        /\ DoubleLink(ColumnObj("kind_names", "kind_id"))
        /\ kind_id \in column_resolved
        /\ DOMAIN link_table_columns[kind_id] = {"kinds", "kind_with_dates"}

\* the links of declaration d that are given by name, each with the name of
\* the column that declares it
RefArgs(d) ==
    UNION { { [origin |-> ColumnSpecs(d)[i].name, arg |-> ColumnSpecs(d)[i].links[j]] :
                j \in { k \in DOMAIN ColumnSpecs(d)[i].links :
                           IsRefArg(ColumnSpecs(d)[i].links[k]) } } :
            i \in DOMAIN ColumnSpecs(d) }

\* C17: forward references resolve.  A declaration whose links are given by
\* table and column name is accepted whether or not the named table exists
\* yet, and after a resolve() at which every named table and column exists
\* the resolve() has succeeded and the link table of the declaring column
\* maps the target table's name to the target Column.
C17_ForwardReferencesResolve ==
    /\ (result.op = "prepare_table" /\ RefArgs(result.table) # {}) =>
          /\ ~IsError(result.raised)
          /\ result.table \in Constructed
    /\ result.op = "resolve_references" =>
          \A d \in Constructed : \A r \in RefArgs(d) :
              LinkArgDefined(r.arg) =>
                  /\ ~IsError(result.raised)
                  /\ link_table_columns[ColumnObj(d, r.origin)][r.arg.table]
                        = LinkArgValue(r.arg)

-----------------------------------------------------------------------------
(* Statements with operands *)

\* C18: errors are raised at build time only.  An expression that exists
\* was accepted by its constructor, so its operator or function symbol is in
\* the whitelist; and every expression and every Select that was
\* constructed renders to SQL text without raising.
C18_ErrorsAtBuildTimeOnly ==
    /\ result.op = "render" =>
          /\ result.expr.k = "OpExpr" => result.expr.op \in operators
          /\ result.expr.k = "FuncExpr" => result.expr.name \in functions
          /\ ~IsError(result.sql.raised)
    /\ (result.op = "build" /\ ~IsError(result.select)) => ~IsError(result.sql.raised)

ClauseKeywords ==
    {"SELECT", "FROM", "WHERE", "GROUP BY", "HAVING", "ORDER BY", "LIMIT", "OFFSET"}

\* the keyword of a clause whose operand was given
Given(operand, keyword) == IF operand = None THEN <<>> ELSE << keyword >>

\* the spellings of word in any letter case; word is in upper case
CaseVariants(word) ==
    LET lower == [c \in {"A", "S", "C", "D", "E"} |->
                    CASE c = "A" -> "a" [] c = "S" -> "s" [] c = "C" -> "c"
                      [] c = "D" -> "d" [] c = "E" -> "e"]
    IN  { s \in [DOMAIN word -> MarkerChars] :
            \A i \in DOMAIN word : s[i] \in {word[i], lower[word[i]]} }

AscendingMarkers ==
    {<< "+" >>} \cup CaseVariants(<< "A" >>) \cup CaseVariants(<< "A", "S", "C" >>)

DescendingMarkers ==
    {<< "-" >>} \cup CaseVariants(<< "D" >>) \cup CaseVariants(<< "D", "E", "S", "C" >>)

\* the words of the ORDER BY operand the statement should carry
ExpectedOrder(order) ==
    Words(join_comma([i \in DOMAIN order.items |->
        sql(order.items[i].expr)
          \o << IF order.items[i].ad_str \in AscendingMarkers THEN "ASC" ELSE "DESC" >>]))

\* the words of w between the keyword and the next clause keyword
Between(w, keyword) ==
    LET at == CHOOSE i \in DOMAIN w : w[i] = keyword
        later == { j \in DOMAIN w : j > at /\ w[j] \in ClauseKeywords }
        last == IF later = {} THEN Len(w)
                ELSE (CHOOSE j \in later : \A l \in later : j <= l) - 1
    IN  SubSeq(w, at + 1, last)

\* C19: Select.sql_query assembles the clauses in the order SELECT, FROM,
\* WHERE, GROUP BY, HAVING, ORDER BY, LIMIT, OFFSET; each optional clause is
\* there exactly when its operand was given, and each ORDER BY entry is
\* followed by ASC when its marker means ascending and by DESC otherwise.
C19_ClausesInFixedOrder ==
    (result.op = "build" /\ ~IsError(result.select)) =>
        /\ ~IsError(result.sql.raised)
        /\ SelectSeq(Words(result.sql.q), LAMBDA t : t \in ClauseKeywords)
             = << "SELECT", "FROM" >> \o Given(result.where, "WHERE")
                 \o Given(result.group, "GROUP BY") \o Given(result.having, "HAVING")
                 \o Given(result.order, "ORDER BY") \o Given(result.count, "LIMIT")
                 \o Given(result.offset, "OFFSET")
        /\ result.order # None =>
              Between(Words(result.sql.q), "ORDER BY") = ExpectedOrder(result.order)

\* C20: order direction markers.  '+', and A and ASC in any letter case,
\* mean ascending; '-', and D and DESC in any letter case, mean descending;
\* every other string makes _is_asc_or_desc, and with it the construction
\* of the Select, fail with the invalid-direction error.
C20_DirectionMarkers ==
    result.op = "order" =>
        LET meaning == IF result.marker \in AscendingMarkers THEN "ascending"
                       ELSE IF result.marker \in DescendingMarkers THEN "descending"
                       ELSE "invalid"
        IN  IF meaning = "invalid"
            THEN /\ result.asc = Error("RuntimeError", "invalid_asc_or_desc")
                 /\ result.select = Error("RuntimeError", "invalid_asc_or_desc")
            ELSE /\ result.asc = [k |-> "bool", v |-> (meaning = "ascending")]
                 /\ ~IsError(result.select)
                 /\ result.select.order_exprs.items[1][2] = (meaning = "ascending")

\* a marker in mixed case was taken for descending
C20_Witness ==
    /\ result.op = "order"
    /\ result.marker = << "d", "E", "s", "c" >>
    /\ result.asc = [k |-> "bool", v |-> FALSE]
    /\ ~IsError(result.select)

-----------------------------------------------------------------------------
(* Rendering, literals, column extraction, operators *)

\* C21: rendering is idempotent and free of side effects.  sql_query()
\* called twice on the same Select gives the same text (or the same error),
\* the Select after the first call is the Select before it, and the schema
\* objects are what they were.
C21_RenderingIdempotent ==
    [][(result'.op = "build" /\ ~IsError(result'.select)) =>
          /\ result'.again = result'.sql
          /\ result'.after = result'.select
          /\ UNCHANGED <<impl, schema_vars, exec_vars>>]_vars

\* a Select whose group was handed over as an iterator rendered its GROUP BY
C21_Witness ==
    /\ result.op = "build"
    /\ result.group = Iter(<< BuildColumn("name") >>)
    /\ result.where # None
    /\ ~IsError(result.select)
    /\ ~IsError(result.sql.raised)
    /\ \E i \in DOMAIN result.again.q : result.again.q[i] = "GROUP BY"

\* v with a backslash put before each backslash and each double quote
RECURSIVE EscapedOnce(_)
EscapedOnce(v) ==
    IF v = <<>> THEN <<>>
    ELSE (IF Head(v) \in {"\"", "\\"} THEN << "\\", Head(v) >> ELSE << Head(v) >>)
           \o EscapedOnce(Tail(v))

\* C22: a string Value renders as a double-quoted literal: an opening
\* double quote, the string with each backslash and each double quote
\* escaped exactly once by a backslash before it, and a closing double quote.
C22_StringLiteralQuoted ==
    result.op = "quote" =>
        result.sql = << "\"" >> \o EscapedOnce(result.v) \o << "\"" >>

\* the column-like leaves of an expression tree, left to right
RECURSIVE ColumnLeaves(_)
ColumnLeaves(e) ==
    LET RECURSIVE Of(_)
        Of(es) == IF es = <<>> THEN <<>> ELSE ColumnLeaves(Head(es)) \o Of(Tail(es))
    IN  CASE IsColumnExpr(e) -> << e >>
          [] e.k = "OpExpr" -> ColumnLeaves(e.larg) \o ColumnLeaves(e.rarg)
          [] e.k = "FuncExpr" -> Of(e.args)
          [] e.k = "Values" -> Of(e.values)
          [] OTHER -> <<>>

\* C28: Select.extract_column_exprs applied to a tree of columns,
\* Operations, Functions and literal Values returns exactly the column-like
\* leaves in left-to-right order and does not fail on a literal leaf, so a
\* Select whose where compares a column with a literal builds its FROM
\* clause.
C28_ExtractionSkipsLiterals ==
    /\ result.op = "render" =>
          /\ ~IsError(result.extracted.raised)
          /\ result.extracted.exprs = ColumnLeaves(result.expr)
    /\ (result.op = "build" /\ ~IsError(result.select)) =>
          result.sql.raised # Error("TypeError", "unexpected_type")

\* the symbols the overloaded operators of the expression API stand for
APISymbols == {"+", "-", "*", "/", "%", "&", "|", "<", "<=", "=", "!=", ">", ">=", "IN"}

\* C30: every operator symbol the expression API produces through its
\* overloaded operators (and IN from __contains__) is in the operator
\* whitelist, so an Operation built through the API passes the whitelist check
\* when it is rendered.
C30_APISymbolsWhitelisted ==
    (result.op = "operator" /\ result.symbol \in APISymbols) =>
        /\ ~IsError(result.expr)
        /\ result.expr.op \in operators
        /\ result.sql.raised # Error("RuntimeError", "unknown_operator")

-----------------------------------------------------------------------------
(* Insert, update, delete, read-or-create *)

\* a listed column of kinds: one of its names, or one of its Column objects
ListedInKinds(c) ==
    IF c.k = "str" THEN c.v \in {"id", "name"} ELSE TableNameOf(c.tab) = "kinds"

ListedName(c) == IF c.k = "str" THEN c.v ELSE c.name

\* the words of INSERT INTO kinds(<columns>) VALUES(<one marker a column>)
InsertWords(columns) ==
    LET RECURSIVE Listed(_, _)
        Listed(item(_), n) ==
            IF n = 0 THEN <<>>
            ELSE Listed(item, n - 1) \o (IF n > 1 THEN << ",", " " >> ELSE <<>>) \o item(n)
        name(n) == QName(ListedName(columns[n]))
        mark(n) == << "%s" >>
    IN  Words(<< "INSERT INTO" >> \o QName("kinds") \o << "(" >> \o Listed(name, Len(columns))
                \o << ")", "VALUES", "(" >> \o Listed(mark, Len(columns)) \o << ")" >>)

\* C25: Table.insert emits one statement INSERT INTO <table>(<columns>)
\* VALUES (...) with as many %s markers as listed columns, in the listed
\* order, and one sequence of bound parameters for each input row with the
\* values of the row in their order; a listed column that does not belong to
\* the table makes the build fail.
C25_InsertStatementAndRows ==
    result.op = "insert" =>
        IF \A i \in DOMAIN result.columns : ListedInKinds(result.columns[i])
        THEN /\ result.statement.raised = None
             /\ Words(result.statement.q) = InsertWords(result.columns)
             /\ Len(SelectSeq(result.statement.q, LAMBDA t : t = "%s")) = Len(result.columns)
             /\ result.params = result.rows
        ELSE IsError(result.statement.raised)

C25_Witness ==
    /\ result.op = "insert"
    /\ result.columns = << Str("name"), BuildColumn("id") >>
    /\ Len(result.rows) = 2
    /\ result.params = << << Number(2), Str("b") >>, << Number(1), Str("a") >> >>

\* C29: Table.update and Table.delete build a statement that contains WHERE
\* exactly when a where is supplied and LIMIT exactly when a count is
\* supplied, and supplying a where expression never makes the build fail.
C29_WhereAndLimitWhenSupplied ==
    result.op \in {"update", "delete"} =>
        /\ result.statement.raised \notin
              { Error("NotImplementedError", "bool"), Error("RuntimeError", "bool") }
        /\ result.statement.raised = None =>
              /\ (\E i \in DOMAIN result.statement.q : result.statement.q[i] = "WHERE")
                    <=> result.where # None
              /\ (\E i \in DOMAIN result.statement.q : result.statement.q[i] = "LIMIT")
                    <=> result.count # None

\* the rows of an input, as a set
RowsOf(input) == { input.items[i] : i \in DOMAIN input.items }

\* how many times row was handed to insert by an outcome
TimesInserted(outcome, row) ==
    Cardinality({ i \in DOMAIN outcome.inserted : outcome.inserted[i] = row })

\* C23: over two successive select_key_with_insertion calls on the same
\* table with overlapping row sets, each distinct row is inserted at most
\* once overall, and a row present after the first call is mapped to the same
\* primary key by the second call.
C23_ReadOrCreateNeverDuplicates ==
    result.op = "select_key_with_insertion" =>
        \A row \in RowsOf(result.records) \cap RowsOf(result.again) :
            /\ TimesInserted(result.first, row) + TimesInserted(result.second, row) <= 1
            /\ result.second.raised = None
            /\ row \in DOMAIN result.second.mapping
            /\ row \in DOMAIN result.first.mapping
            /\ result.second.mapping[row] = result.first.mapping[row]

\* C24: select_key_with_insertion returns a mapping whose key set is
\* exactly the set of input value-tuples, also when the input is a one-shot
\* iterator.
C24_MappingCoversInput ==
    result.op = "select_key_with_insertion" =>
        /\ result.first.raised = None
        /\ DOMAIN result.first.mapping = RowsOf(result.records)

-----------------------------------------------------------------------------
(* Connections and cursors *)

\* C26: over any sequence of connect, close, close_connection, __exit__ and
\* __del__ calls on the connection and cursor wrappers, every acquired driver
\* connection or cursor has close() invoked at most once, and once its wrapper
\* was closed, left or deleted, exactly once.
C26_ReleasedExactlyOnce ==
    /\ \A id \in DOMAIN driver : driver[id].closes <= 1
    /\ result.op \in {"Connection.close", "Operation.close"} =>
          \A id \in result.held : driver[id].closes = 1

\* C27: once a Connection is closed, every later use of an Operation that
\* took its cursor from it (cur, execute, execute_many) fails with an already-closed error and
\* does not reach the driver cursor.
C27_NoCursorUseAfterConnectionClose ==
    (result.op = "use" /\ result.entered /\ result.connection_closed) =>
        /\ IsError(result.raised)
        /\ result.raised.why \in {"connection_already_closed", "cursor_already_closed"}
        /\ result.cursor = None
        /\ ~result.reached

====
